---- MODULE Spec2Model ----
(***************************************************************************)
(* Registry & trust synchronisation of biznode: the node table             *)
(* (registry/models.py), the trust engine (registry/trust_engine.py), the  *)
(* ledger event listener (registry/event_listener.py), the name resolver   *)
(* (registry/dns_resolver.py) and the HTTP API (registry/main.py).         *)
(*                                                                         *)
(* Representation of numbers.  TLA+ has no floats:                         *)
(*   - trust_score is held in hundredths of a point (round(score, 2));     *)
(*   - the unrounded score is held in millionths of a point;               *)
(*   - uptime_score and ai_quality_score are held in hundredths;           *)
(*   - wei amounts are held in units of 10^15 wei, so that one MATIC       *)
(*     (10^18 wei) is WEI_PER_MATIC = 1000 units.                          *)
(* None is the value NULL.                                                 *)
(***************************************************************************)
EXTENDS Integers, Sequences, FiniteSets, TLC

\* ------------------------------------------------------------------ bounds
\* operations (handled events, API calls, ledger changes) of one run of the
\* registry taken one call at a time
MaxOps == 4
\* blocks the ledger mines after the listener's deployment
MaxBlocks == 3
\* concurrent API requests in flight
MaxCalls == 3
\* events the contract emits after the listener's deployment
MaxEvents == 3
\* the same, in the runs that check progress
MaxLiveEvents == 2

\* ---------------------------------------------------------------- domains
NULL == "NULL"
Hashes == {"h1", "h2"}
\* "a.1bz" and "b.1bz" are claimed on the ledger, "ghost.1bz" never is
Names == {"a.1bz", "b.1bz"}
LedgerName(h) == IF h = "h1" THEN "a.1bz" ELSE "b.1bz"
\* the zero bytes32 resolveDNS returns for an unclaimed name
ZERO_HASH == "0x0"
\* the zero address getNode returns for an unregistered hash
ZERO_WALLET == "0x0"
LedgerWallet(h) == IF h = "h1" THEN "w1" ELSE "w2"
\* run_listener's constants
CONFIRMATIONS == 2
COLD_START_REWIND == 1000
\* the ledger's head when the registry is deployed: older than the window
\* a cold start rewinds
GenesisHead == COLD_START_REWIND + CONFIRMATIONS
\* no block number: a variable not assigned yet, a file that does not exist
NoBlock == 0 - 1
WEI_PER_MATIC == 10^3
\* stake totals the ledger reports, in units of 10^15 wei: 0, 500 and 1000 MATIC
StakeAmounts == {0, 500 * WEI_PER_MATIC, 1000 * WEI_PER_MATIC}

Min(a, b) == IF a < b THEN a ELSE b
Max(a, b) == IF a > b THEN a ELSE b

\* ------------------------------------------------------------ trust engine
STAKE_WEIGHT == 30
UPTIME_WEIGHT == 25
AI_QUALITY_WEIGHT == 20
ENDORSEMENT_WEIGHT == 15
COMPLAINT_PENALTY == 10
VERIFIED_BONUS == 10
MAX_STAKE_MATIC == 1000
MICRO == 10^6

\* Web3.from_wei(int(node.stake_wei or 0), "ether"): whole MATIC and the
\* remaining thousandths
from_wei(stake_wei) ==
    [matic |-> stake_wei \div WEI_PER_MATIC, frac |-> stake_wei % WEI_PER_MATIC]

\* min(log1p(stake_matic) / log1p(MAX_STAKE_MATIC), 1.0) in millionths,
\* tabulated (rounded to the nearest millionth) for the stakes of the model
stake_norm(stake) ==
    IF ~(stake.matic > 0 \/ stake.frac > 0) THEN 0
    ELSE IF stake.matic >= MAX_STAKE_MATIC THEN MICRO
    ELSE CASE stake.matic = 1 -> 100329
           [] stake.matic = 10 -> 347081
           [] stake.matic = 100 -> 668010
           [] stake.matic = 250 -> 799776
           [] stake.matic = 500 -> 899816
           [] stake.matic = 750 -> 958408
           [] stake.matic = 999 -> 999855

\* min(log1p(endorsement_count) / log1p(100), 1.0) in millionths, tabulated
endorsement_norm(n) ==
    IF n >= 100 THEN MICRO
    ELSE CASE n = 0 -> 0
           [] n = 1 -> 150190
           [] n = 2 -> 238046
           [] n = 3 -> 300381
           [] n = 4 -> 348732
           [] n = 5 -> 388237
           [] n = 6 -> 421638
           [] n = 7 -> 450571
           [] n = 8 -> 476093
           [] n = 9 -> 498922
           [] n = 10 -> 519574

\* max(0.0, min(1.0, x)) for x in hundredths, in millionths
clamp01(x) == Max(0, Min(100, x)) * (MICRO \div 100)

score_to_tier(score, verified) ==
    IF score >= 90 * MICRO THEN "ENTERPRISE"
    ELSE IF score >= 70 * MICRO THEN "TRUSTED"
    ELSE IF score >= 40 * MICRO /\ verified THEN "VERIFIED"
    ELSE "UNVERIFIED"

\* round(score, 2): millionths to hundredths
round2(score) == (score + 5000) \div 10000

\* the unrounded score of compute_trust_score, in millionths
raw_score_unclamped(inputs) ==
    LET complaint_ratio ==
            IF inputs.total_interactions > 0
            THEN (inputs.complaint_count * MICRO) \div inputs.total_interactions
            ELSE 0
        complaint_penalty ==
            Min(complaint_ratio * COMPLAINT_PENALTY, COMPLAINT_PENALTY * MICRO)
        verified_bonus == IF inputs.verified THEN VERIFIED_BONUS * MICRO ELSE 0
    IN  stake_norm(inputs.stake_matic) * STAKE_WEIGHT
        + clamp01(inputs.uptime_ratio) * UPTIME_WEIGHT
        + clamp01(inputs.ai_quality_score) * AI_QUALITY_WEIGHT
        + endorsement_norm(inputs.endorsement_count) * ENDORSEMENT_WEIGHT
        - complaint_penalty
        + verified_bonus

raw_score(inputs) ==
    LET complaint_ratio ==
            IF inputs.total_interactions > 0
            THEN (inputs.complaint_count * MICRO) \div inputs.total_interactions
            ELSE 0
        complaint_penalty ==
            Min(complaint_ratio * COMPLAINT_PENALTY, COMPLAINT_PENALTY * MICRO)
        verified_bonus == IF inputs.verified THEN VERIFIED_BONUS * MICRO ELSE 0
        score == stake_norm(inputs.stake_matic) * STAKE_WEIGHT
                 + clamp01(inputs.uptime_ratio) * UPTIME_WEIGHT
                 + clamp01(inputs.ai_quality_score) * AI_QUALITY_WEIGHT
                 + endorsement_norm(inputs.endorsement_count) * ENDORSEMENT_WEIGHT
                 - complaint_penalty
                 + verified_bonus
    IN  Max(0, Min(100 * MICRO, score))

compute_trust_score(inputs) ==
    LET score == raw_score(inputs)
    IN  [score |-> round2(score), tier |-> score_to_tier(score, inputs.verified)]

\* the TrustInputs update_node_trust builds from a row
TrustInputs(node) ==
    [stake_matic |-> from_wei(node.stake_wei),
     uptime_ratio |-> node.uptime_score,
     ai_quality_score |-> node.ai_quality_score,
     endorsement_count |-> node.endorsement_count,
     complaint_count |-> node.complaint_count,
     total_interactions |-> Max(1, node.endorsement_count + node.complaint_count),
     verified |-> node.verified]

\* --------------------------------------------------------------- node table
\* A row of table "nodes" (class NodeRecord) with the column defaults; the
\* created_at/updated_at audit stamps, which nothing reads, are left out.
\* Timestamps are NULL or the stamp "t".
NodeRecord(node_hash, node_id, public_key, wallet, dns_name, ip_address, last_seen, registered_at) ==
    [node_hash |-> node_hash, node_id |-> node_id, public_key |-> public_key,
     wallet |-> wallet, dns_name |-> dns_name,
     verified |-> FALSE, stake_wei |-> 0, registered_at |-> registered_at,
     trust_score |-> 0, uptime_score |-> 0, ai_quality_score |-> 0,
     complaint_count |-> 0, endorsement_count |-> 0,
     trust_tier |-> "UNVERIFIED",
     ip_address |-> ip_address, last_seen |-> last_seen, active |-> TRUE]

\* db.query(NodeRecord).filter_by(node_hash=h).first()
Has(db, h) == \E r \in db : r.node_hash = h
Row(db, h) == CHOOSE r \in db : r.node_hash = h

\* The constraints of the table, checked when a flush writes `row`:
\* node_hash is the primary key, node_id is unique and not null, dns_name is
\* unique where it is not null.
Conflicts_without_primary_key(others, row) ==
    \/ row.node_id = NULL
    \/ \E r \in others :
          \/ r.node_id = row.node_id
          \/ (row.dns_name # NULL /\ r.dns_name = row.dns_name)

Conflicts(others, row) ==
    \/ row.node_id = NULL
    \/ \E r \in others :
          \/ r.node_hash = row.node_hash
          \/ r.node_id = row.node_id
          \/ (row.dns_name # NULL /\ r.dns_name = row.dns_name)

\* the table with the row of row.node_hash replaced by `row`
Put(db, row) == {r \in db : r.node_hash # row.node_hash} \cup {row}

\* Python truthiness of an optional string
Truthy(x) == x # NULL /\ x # ""

\* update_node_trust on a row that exists: recompute and store score and tier
update_node_trust(db, node_hash) ==
    LET node == Row(db, node_hash)
        st == compute_trust_score(TrustInputs(node))
    IN  Put(db, [node EXCEPT !.trust_score = st.score, !.trust_tier = st.tier])

\* ---------------------------------------------------------- ledger events
\* the handlers keyed in the order of their names
EVENT_HANDLERS_by_name ==
    <<"NodeDeregistered", "NodeRegistered", "NodeVerified", "StakeAdded",
      "StakeWithdrawn">>

EVENT_HANDLERS ==
    <<"NodeRegistered", "NodeVerified", "StakeAdded", "StakeWithdrawn",
      "NodeDeregistered">>

Event(type, h, wallet, dns, total) ==
    [type |-> type, hash |-> h, wallet |-> wallet, dnsName |-> dns,
     newTotal |-> total]

Events ==
    {Event("NodeRegistered", h, LedgerWallet(h), d, 0) : h \in Hashes, d \in Names}
    \cup {Event("NodeVerified", h, NULL, NULL, 0) : h \in Hashes}
    \cup {Event("StakeAdded", h, NULL, NULL, t) : h \in Hashes, t \in StakeAmounts \ {0}}
    \cup {Event("StakeWithdrawn", h, NULL, NULL, 0) : h \in Hashes}
    \cup {Event("NodeDeregistered", h, NULL, NULL, 0) : h \in Hashes}

\* What a handler leaves behind: the table, whether it raised, and whether
\* the session can still be used (a flush that failed leaves the session's
\* transaction rolled back until Session.rollback() is called, and no
\* handler calls it).
Outcome(db, raised, usable) == [db |-> db, raised |-> raised, usable |-> usable]

\* a handler that writes the event's row over the one it finds
process_node_registered_upsert(event, db) ==
    LET node == NodeRecord(event.hash, "", NULL, event.wallet,
                           event.dnsName, NULL, NULL, "t")
    IN  IF Conflicts({r \in db : r.node_hash # event.hash}, node)
        THEN Outcome(db, TRUE, FALSE)
        ELSE Outcome(Put(db, node), FALSE, TRUE)

process_node_registered(event, db) ==
    IF Has(db, event.hash) THEN Outcome(db, FALSE, TRUE)
    ELSE LET node == NodeRecord(event.hash, "", NULL, event.wallet,
                                event.dnsName, NULL, NULL, "t")
         IN  IF Conflicts(db, node) THEN Outcome(db, TRUE, FALSE)
             ELSE Outcome(db \cup {node}, FALSE, TRUE)

process_node_verified_flag_only(event, db) ==
    IF ~Has(db, event.hash) THEN Outcome(db, FALSE, TRUE)
    ELSE Outcome(Put(db, [Row(db, event.hash) EXCEPT !.verified = TRUE]), FALSE, TRUE)

process_node_verified(event, db) ==
    IF ~Has(db, event.hash) THEN Outcome(db, FALSE, TRUE)
    ELSE LET node == Row(db, event.hash)
             db1 == Put(db, [node EXCEPT !.verified = TRUE])
         IN  Outcome(update_node_trust(db1, event.hash), FALSE, TRUE)

process_stake_added(event, db) ==
    IF ~Has(db, event.hash) THEN Outcome(db, FALSE, TRUE)
    ELSE LET node == Row(db, event.hash)
             db1 == Put(db, [node EXCEPT !.stake_wei = event.newTotal])
         IN  Outcome(update_node_trust(db1, event.hash), FALSE, TRUE)

\* contract.functions.getNode(h).call(): of the tuple the code reads wallet
\* [0], verified [2], stakeAmount [3] and active [5]
getNode(ledger, h) == ledger.chain[h]

\* `ledger` is what the handler's own getNode call sees: whether the RPC
\* answers, and the contract's state
process_stake_withdrawn(event, db, ledger) ==
    IF ~Has(db, event.hash) THEN Outcome(db, FALSE, TRUE)
    ELSE LET node == Row(db, event.hash)
             db1 == IF ledger.up
                    THEN Put(db, [node EXCEPT !.stake_wei = getNode(ledger, event.hash).stake])
                    ELSE db
         IN  Outcome(update_node_trust(db1, event.hash), FALSE, TRUE)

process_node_deregistered_delete(event, db) ==
    Outcome({r \in db : r.node_hash # event.hash}, FALSE, TRUE)

process_node_deregistered(event, db) ==
    IF ~Has(db, event.hash) THEN Outcome(db, FALSE, TRUE)
    ELSE Outcome(Put(db, [Row(db, event.hash) EXCEPT !.active = FALSE]), FALSE, TRUE)

\* handler(event, db) inside the loop's try/except, on a session that is
\* usable or not: on an unusable session the handler's first query raises
Handle(event, db, usable, ledger) ==
    IF ~usable THEN Outcome(db, TRUE, FALSE)
    ELSE CASE event.type = "NodeRegistered" -> process_node_registered(event, db)
           [] event.type = "NodeVerified" -> process_node_verified(event, db)
           [] event.type = "StakeAdded" -> process_stake_added(event, db)
           [] event.type = "StakeWithdrawn" -> process_stake_withdrawn(event, db, ledger)
           [] event.type = "NodeDeregistered" -> process_node_deregistered(event, db)

\* ------------------------------------------------------------------- API
\* NodeRegisterRequest bodies: node_hash and node_id are required strings
\* (node_id may be empty), the rest optional
NodeIds == {"", "n1"}
RegisterRequests ==
    [node_hash : Hashes, node_id : NodeIds, public_key : {NULL}, wallet : {NULL},
     dns_name : {NULL}, ip_address : {NULL}]
    \cup [node_hash : Hashes, node_id : NodeIds, public_key : {"pk"},
          wallet : {"w9"}, dns_name : {"a.1bz"}, ip_address : {"ip1"}]
\* self-registrations under a name nobody claimed on the ledger
GhostRequests ==
    [node_hash : Hashes, node_id : {"n1"}, public_key : {"pk"}, wallet : {"w9"},
     dns_name : {"ghost.1bz"}, ip_address : {"ip1"}]
\* HeartbeatRequest bodies
HeartbeatRequests == [ip_address : {NULL, "ip2"}]
UPTIME_STEP == 1

Reply(db, status) == [db |-> db, status |-> status]

\* a register whose update branch marks the row active again
register_node_reactivating(req, db) ==
    IF Has(db, req.node_hash)
    THEN LET existing == Row(db, req.node_hash)
             e1 == [existing EXCEPT !.last_seen = "t", !.active = TRUE]
         IN  Reply(Put(db, e1), "updated")
    ELSE LET node == NodeRecord(req.node_hash, req.node_id, req.public_key,
                                req.wallet, req.dns_name, req.ip_address, "t", NULL)
         IN  IF Conflicts(db, node) THEN Reply(db, "error")
             ELSE Reply(db \cup {node}, "registered")

\* POST /node/register; an IntegrityError of the commit is not caught and
\* surfaces as a server error, with nothing written
register_node(req, db) ==
    IF Has(db, req.node_hash)
    THEN LET existing == Row(db, req.node_hash)
             e1 == IF Truthy(req.public_key)
                   THEN [existing EXCEPT !.public_key = req.public_key] ELSE existing
             e2 == IF Truthy(req.ip_address)
                   THEN [e1 EXCEPT !.ip_address = req.ip_address] ELSE e1
             e3 == IF Truthy(req.node_id)
                   THEN [e2 EXCEPT !.node_id = req.node_id] ELSE e2
             e4 == [e3 EXCEPT !.last_seen = "t"]
         IN  IF Conflicts(db \ {existing}, e4) THEN Reply(db, "error")
             ELSE Reply(Put(db, e4), "updated")
    ELSE LET node == NodeRecord(req.node_hash, req.node_id, req.public_key,
                                req.wallet, req.dns_name, req.ip_address, "t", NULL)
         IN  IF Conflicts(db, node) THEN Reply(db, "error")
             ELSE Reply(db \cup {node}, "registered")

\* a heartbeat that creates the row it does not find
heartbeat_upsert(node_hash, req, db) ==
    IF Has(db, node_hash) THEN Reply(db, "ok")
    ELSE Reply(db \cup {NodeRecord(node_hash, node_hash, NULL, NULL, NULL,
                                   req.ip_address, "t", NULL)}, "ok")

\* a heartbeat that adds the step without the cap
heartbeat_uncapped(node_hash, req, db) ==
    IF ~Has(db, node_hash) THEN Reply(db, "not_found")
    ELSE LET node == Row(db, node_hash)
             n1 == [node EXCEPT !.last_seen = "t"]
             n2 == IF Truthy(req.ip_address)
                   THEN [n1 EXCEPT !.ip_address = req.ip_address] ELSE n1
             n3 == [n2 EXCEPT !.uptime_score = node.uptime_score + UPTIME_STEP]
         IN  Reply(Put(db, n3), "ok")

\* POST /node/{node_hash}/heartbeat
heartbeat(node_hash, req, db) ==
    IF ~Has(db, node_hash) THEN Reply(db, "not_found")
    ELSE LET node == Row(db, node_hash)
             n1 == [node EXCEPT !.last_seen = "t"]
             n2 == IF Truthy(req.ip_address)
                   THEN [n1 EXCEPT !.ip_address = req.ip_address] ELSE n1
             n3 == [n2 EXCEPT !.uptime_score = Min(100, node.uptime_score + UPTIME_STEP)]
         IN  Reply(Put(db, n3), "ok")

\* POST /node/{node_hash}/endorse, one request running alone
endorse_node(node_hash, db) ==
    IF ~Has(db, node_hash) THEN Reply(db, "not_found")
    ELSE LET node == Row(db, node_hash)
             db1 == Put(db, [node EXCEPT !.endorsement_count = node.endorsement_count + 1])
         IN  Reply(update_node_trust(db1, node_hash), "endorsed")

\* POST /node/{node_hash}/complain, one request running alone
complain_node(node_hash, db) ==
    IF ~Has(db, node_hash) THEN Reply(db, "not_found")
    ELSE LET node == Row(db, node_hash)
             db1 == Put(db, [node EXCEPT !.complaint_count = node.complaint_count + 1])
         IN  Reply(update_node_trust(db1, node_hash), "complaint_filed")

\* POST /admin/rescore/{node_hash}: update_node_trust raises ValueError for
\* a hash without a row, answered with 404
rescore_node(node_hash, db) ==
    IF ~Has(db, node_hash) THEN Reply(db, "not_found")
    ELSE Reply(update_node_trust(db, node_hash), "ok")

\* ---------------------------------------------------------- name resolver
\* names a caller asks for: the two the ledger maps and one nobody claimed
QueryNames == Names \cup {"ghost.1bz"}

\* None where a dict or a DNSRecord is expected
NoRecord == [none |-> TRUE]

\* NodeRecord.to_dict(): the keys it has, public_key not among them
to_dict(node) ==
    [node_hash |-> node.node_hash, node_id |-> node.node_id,
     wallet |-> node.wallet, dns_name |-> node.dns_name,
     verified |-> node.verified, stake_wei |-> node.stake_wei,
     trust_score |-> node.trust_score, trust_tier |-> node.trust_tier,
     ip_address |-> node.ip_address, last_seen |-> node.last_seen,
     registered_at |-> node.registered_at, active |-> node.active]

\* contract.functions.resolveDNS(dns_name).call(): the hash that holds the
\* name, or the zero hash
resolveDNS(ledger, dns_name) ==
    LET owners == {h \in Hashes : ledger.chain[h].dnsName = dns_name}
    IN  IF owners = {} THEN ZERO_HASH ELSE CHOOSE h \in owners : TRUE

\* resolve_on_chain: None for the zero hash, and None when the call raises
resolve_on_chain(dns_name, ledger) ==
    IF ~ledger.up THEN NULL
    ELSE IF resolveDNS(ledger, dns_name) = ZERO_HASH THEN NULL
    ELSE resolveDNS(ledger, dns_name)

\* resolve_off_chain: the row's to_dict(), or None
resolve_off_chain(node_hash, db) ==
    IF Has(db, node_hash) THEN to_dict(Row(db, node_hash)) ELSE NoRecord

DNSRecord(dns_name, node_hash, wallet, public_key, ip_address, trust_score, trust_tier, verified, active) ==
    [dns_name |-> dns_name, node_hash |-> node_hash, wallet |-> wallet,
     public_key |-> public_key, ip_address |-> ip_address,
     trust_score |-> trust_score, trust_tier |-> trust_tier,
     verified |-> verified, active |-> active]

\* a resolver that asks the table for the name when the ledger has none
resolve_store_decides(dns_name, db, ledger, ledger2) ==
    LET node_hash == resolve_on_chain(dns_name, ledger)
        held == {r \in db : r.dns_name = dns_name}
        meta == IF node_hash # NULL THEN resolve_off_chain(node_hash, db)
                ELSE IF held # {} THEN to_dict(CHOOSE r \in held : TRUE)
                ELSE NoRecord
    IN  IF meta # NoRecord
        THEN DNSRecord(dns_name, meta.node_hash, meta.wallet, NULL,
                       meta.ip_address, meta.trust_score, meta.trust_tier,
                       meta.verified, meta.active)
        ELSE IF node_hash = NULL \/ ~ledger2.up THEN NoRecord
        ELSE DNSRecord(dns_name, node_hash, getNode(ledger2, node_hash).wallet,
                       NULL, NULL, 0,
                       IF getNode(ledger2, node_hash).verified
                       THEN "VERIFIED" ELSE "UNVERIFIED",
                       getNode(ledger2, node_hash).verified,
                       getNode(ledger2, node_hash).active)

\* resolve: `ledger` is what resolveDNS sees and `ledger2` what the later
\* getNode call of the fallback sees
resolve(dns_name, db, ledger, ledger2) ==
    LET node_hash == resolve_on_chain(dns_name, ledger)
        meta == resolve_off_chain(node_hash, db)
        on_chain == getNode(ledger2, node_hash)
    IN  IF node_hash = NULL THEN NoRecord
        ELSE IF meta # NoRecord
        THEN DNSRecord(dns_name, node_hash, meta.wallet, NULL, meta.ip_address,
                       meta.trust_score, meta.trust_tier, meta.verified,
                       meta.active)
        ELSE IF ~ledger2.up THEN NoRecord
        ELSE DNSRecord(dns_name, node_hash, on_chain.wallet, NULL, NULL, 0,
                       IF on_chain.verified THEN "VERIFIED" ELSE "UNVERIFIED",
                       on_chain.verified, on_chain.active)

\* GET /dns/{dns_name}: 404 when resolve returns None
resolve_dns(dns_name, db, ledger, ledger2) ==
    LET record == resolve(dns_name, db, ledger, ledger2)
    IN  IF record = NoRecord THEN [status |-> "not_found", body |-> NoRecord]
        ELSE [status |-> "ok", body |-> record]

\* GET /node/{node_hash}: the row as NodeResponse, or 404
NodeResponse(d) ==
    [node_hash |-> d.node_hash, node_id |-> d.node_id, wallet |-> d.wallet,
     dns_name |-> d.dns_name, verified |-> d.verified,
     trust_score |-> d.trust_score, trust_tier |-> d.trust_tier,
     ip_address |-> d.ip_address, last_seen |-> d.last_seen, active |-> d.active]

get_node(node_hash, db) ==
    IF ~Has(db, node_hash) THEN [status |-> "not_found", body |-> NoRecord]
    ELSE [status |-> "ok", body |-> NodeResponse(to_dict(Row(db, node_hash)))]

\* GET /verify?entity=: the bodies the endpoint can answer with.  The query
\* has no ORDER BY, so .first() is any of the rows that match.
verify_entity_by_name(entity, db) ==
    LET matching == {r \in db : r.dns_name = entity}
    IN  IF matching = {} THEN {[status |-> "UNVERIFIED"]}
        ELSE {[status |-> r.trust_tier, trust_score |-> r.trust_score] : r \in matching}

verify_entity(entity, db) ==
    LET matching == {r \in db : r.dns_name = entity \/ r.node_id = entity}
    IN  IF matching = {} THEN {[status |-> "UNVERIFIED"]}
        ELSE {[status |-> r.trust_tier, trust_score |-> r.trust_score] : r \in matching}

\* GET /nodes?skip=&limit=&verified_only=: the pages the endpoint can answer
\* with.  The query has no ORDER BY, so offset and limit cut `limit` rows,
\* after `skip` of them, out of the filtered rows in any order.
list_nodes(skip, limit, verified_only, db) ==
    LET listed == {r \in db : r.active /\ (verified_only => r.verified)}
        size == Min(limit, Max(0, Cardinality(listed) - skip))
    IN  {{to_dict(r) : r \in page} :
            page \in {p \in SUBSET listed : Cardinality(p) = size}}

\* ------------------------------------------------ the legacy verification client
\* core/verification.py.  A config is a dict: a key it does not have is NULL.
Configs ==
    [mode : {NULL, "local", "registry", "cloud"},
     entity_slug : {NULL, "n1", "a.1bz"},
     registry_api : {NULL, "http://registry/verify"}]

\* f"{api}?entity={slug}": str() of a missing value is the text "None"
format_value(x) == IF x = NULL THEN "None" ELSE x

\* what requests.get(...).json() comes to: an exception, or the body
Failed == [failed |-> TRUE]

\* the bodies GET /verify can answer the request of this config with, or
\* Failed: no URL to call, or the registry is down
http_verify(config, db, registry_up) ==
    IF config.registry_api = NULL \/ ~registry_up THEN {Failed}
    ELSE verify_entity(format_value(config.entity_slug), db)

\* check_verification with `data` what r.json() came to
check_verification(config, data) ==
    LET mode == IF config.mode = NULL THEN "local" ELSE config.mode
    IN  IF mode = "local" THEN "UNVERIFIED"
        ELSE IF mode = "registry"
             THEN IF data = Failed THEN "UNVERIFIED" ELSE data.status
             ELSE "UNVERIFIED"

\* ------------------------------------------------------------------ state
VARIABLES
    nodes,          \* table "nodes": a set of rows
    chain,          \* the contract's node struct of each hash
    rpc_up,         \* whether the ledger RPC answers
    resp,           \* the last operation and how it ended
    ops,            \* operations served so far
    calls,          \* the API requests in flight, each with its session's view
    lpc,            \* where the listener process is
    from_block,     \* run_listener's from_block
    last_block_file,\* content of registry/.last_block, NoBlock while it does not exist
    resumed_from,   \* the checkpoint this process was started from, NoBlock on a cold start
    head,           \* w3.eth.block_number
    chain_log,      \* the contract's event log, in order, each event with its block
    current_block,  \* run_listener's current_block
    handler_idx,    \* position in EVENT_HANDLERS of the type being fetched
    events,         \* events of that type still to be handled
    session_usable, \* whether the tick's session can still be used
    handed,         \* the ledger events a handler was called with so far
    applied,        \* the events handed to a handler in the tick under way, in order
    covered,        \* the last block fetched by the ticks that ran to their end
    WALLET_ADDRESS_FILE, \* identity/wallet_address.txt
    WALLET_KEY_ENC_FILE, \* identity/wallet_key.enc
    gen,            \* the generate_wallet calls, each with its position
    wallet_loaded   \* what the last load_wallet_address came to (flip tells calls apart)

vars == <<nodes, chain, rpc_up, resp, ops, calls, lpc, from_block,
          last_block_file, resumed_from, head, chain_log, current_block,
          handler_idx, events, session_usable, handed, applied, covered,
          WALLET_ADDRESS_FILE, WALLET_KEY_ENC_FILE, gen, wallet_loaded>>
conc == <<calls>>
\* the node's wallet files and the calls working on them
idn == <<WALLET_ADDRESS_FILE, WALLET_KEY_ENC_FILE, gen, wallet_loaded>>
\* the listener process's own variables
proc == <<lpc, from_block, resumed_from, current_block, handler_idx, events,
          session_usable>>
lis == <<proc, last_block_file, handed, applied, covered, head, chain_log>>

Tick == ops < MaxOps /\ ops' = ops + 1

\* no tick has run to its end yet
NoRange == [hi |-> NoBlock, exact |-> TRUE]

\* ------------------------------------------------------- the node's wallet
\* identity/wallet.py.  Text is a sequence of characters.
WalletCallers == 1..MaxCalls
\* what Account.create() can draw
Addresses == {<<"0", "x", "a">>, <<"0", "x", "b">>}
Passwords == {"pw1", "pw2"}
Whitespace == {" ", "\n"}

\* a file that does not exist, and one holding `content`
NoFile == [exists |-> FALSE, content |-> <<>>]
File(content) == [exists |-> TRUE, content |-> content]

\* str.strip()
RECURSIVE lstrip(_)
lstrip(s) == IF s # <<>> /\ Head(s) \in Whitespace THEN lstrip(Tail(s)) ELSE s
RECURSIVE rstrip(_)
rstrip(s) ==
    IF s # <<>> /\ s[Len(s)] \in Whitespace THEN rstrip(SubSeq(s, 1, Len(s) - 1)) ELSE s
strip(s) == rstrip(lstrip(s))

\* Fernet(_derive_fernet_key(password)).encrypt(private key of `address`)
encrypt(address, password) == <<address, password>>

wallet_exists == WALLET_ADDRESS_FILE.exists /\ WALLET_KEY_ENC_FILE.exists

NotCalled == [pc |-> "idle", address |-> <<>>, password |-> "", error |-> ""]

InitWallet ==
    /\ WALLET_ADDRESS_FILE = NoFile
    /\ WALLET_KEY_ENC_FILE = NoFile
    /\ gen = [p \in WalletCallers |-> NotCalled]
    /\ wallet_loaded = [raised |-> FALSE, value |-> <<>>, flip |-> FALSE]

WalletRest == <<nodes, chain, rpc_up, resp, ops, conc, lis>>

\* a generate_wallet that does not look for an existing wallet
GenerateCheck_overwriting(p, password, installed) ==
    /\ gen[p].pc = "idle"
    /\ IF ~installed
       THEN gen' = [gen EXCEPT ![p].pc = "raised", ![p].error = "ImportError"]
       ELSE \E address \in Addresses :
               gen' = [gen EXCEPT ![p].pc = "created", ![p].address = address,
                                  ![p].password = password]
    /\ UNCHANGED <<WALLET_ADDRESS_FILE, WALLET_KEY_ENC_FILE, wallet_loaded, WalletRest>>

\* generate_wallet up to Account.create(): the existence test, the imports
\* (which fail where eth-account or cryptography is not installed), the draw
GenerateCheck(p, password, installed) ==
    /\ gen[p].pc = "idle"
    /\ IF wallet_exists
       THEN gen' = [gen EXCEPT ![p].pc = "raised", ![p].error = "FileExistsError"]
       ELSE IF ~installed
            THEN gen' = [gen EXCEPT ![p].pc = "raised", ![p].error = "ImportError"]
            ELSE \E address \in Addresses :
                    gen' = [gen EXCEPT ![p].pc = "created", ![p].address = address,
                                       ![p].password = password]
    /\ UNCHANGED <<WALLET_ADDRESS_FILE, WALLET_KEY_ENC_FILE, wallet_loaded, WalletRest>>

\* WALLET_KEY_ENC_FILE.write_bytes(encrypted)
GenerateWriteKey(p) ==
    /\ gen[p].pc = "created"
    /\ WALLET_KEY_ENC_FILE' = File(encrypt(gen[p].address, gen[p].password))
    /\ gen' = [gen EXCEPT ![p].pc = "key_written"]
    /\ UNCHANGED <<WALLET_ADDRESS_FILE, wallet_loaded, WalletRest>>

\* WALLET_ADDRESS_FILE.write_text(address), and the return
GenerateWriteAddress(p) ==
    /\ gen[p].pc = "key_written"
    /\ WALLET_ADDRESS_FILE' = File(gen[p].address)
    /\ gen' = [gen EXCEPT ![p].pc = "returned"]
    /\ UNCHANGED <<WALLET_KEY_ENC_FILE, wallet_loaded, WalletRest>>

\* the process is killed before it has written both files
GenerateKilled(p) ==
    /\ gen[p].pc \in {"created", "key_written"}
    /\ gen' = [gen EXCEPT ![p] = [NotCalled EXCEPT !.pc = "killed"]]
    /\ UNCHANGED <<WALLET_ADDRESS_FILE, WALLET_KEY_ENC_FILE, wallet_loaded, WalletRest>>

load_wallet_address ==
    IF ~WALLET_ADDRESS_FILE.exists THEN [raised |-> TRUE, value |-> <<>>]
    ELSE [raised |-> FALSE, value |-> strip(WALLET_ADDRESS_FILE.content)]

LoadWalletAddress ==
    /\ wallet_loaded' = [raised |-> load_wallet_address.raised,
                         value |-> load_wallet_address.value,
                         flip |-> ~wallet_loaded.flip]
    /\ UNCHANGED <<WALLET_ADDRESS_FILE, WALLET_KEY_ENC_FILE, gen, WalletRest>>

NextWallet ==
    \/ \E p \in WalletCallers, password \in Passwords, installed \in BOOLEAN :
          GenerateCheck(p, password, installed)
    \/ \E p \in WalletCallers : GenerateWriteKey(p)
    \/ \E p \in WalletCallers : GenerateWriteAddress(p)
    \/ \E p \in WalletCallers : GenerateKilled(p)
    \/ LoadWalletAddress


Ledger == [up |-> rpc_up, chain |-> chain]

\* a request that has not arrived yet
IdleCall == [pc |-> "idle", op |-> NULL, hash |-> NULL, node |-> NULL, status |-> NULL]

\* the log line or HTTP answer of an operation; `again` tells that the
\* operation before it was the same one with the same argument
Done(op, arg, status) ==
    [op |-> op, arg |-> arg, status |-> status,
     again |-> (resp.op = op /\ resp.arg = arg)]

\* the contract's struct of a hash nobody registered: all zero
ZeroNode ==
    [wallet |-> ZERO_WALLET, dnsName |-> "", verified |-> FALSE, stake |-> 0,
     active |-> FALSE]
\* the struct registerNode stores
FreshNode(h) ==
    [wallet |-> LedgerWallet(h), dnsName |-> LedgerName(h), verified |-> FALSE,
     stake |-> 0, active |-> TRUE]

\* an empty table, no request in flight, the listener process not started
\* and no checkpoint file
InitStore ==
    /\ nodes = {}
    /\ rpc_up = TRUE
    /\ resp = [op |-> "init", arg |-> NULL, status |-> "ok", again |-> FALSE]
    /\ ops = 0
    /\ calls = [c \in 1..MaxCalls |-> IdleCall]
    /\ lpc = "boot"
    /\ from_block = NoBlock
    /\ last_block_file = NoBlock
    /\ resumed_from = NoBlock
    /\ head = GenesisHead
    /\ chain_log = <<>>
    /\ current_block = NoBlock
    /\ handler_idx = 1
    /\ events = <<>>
    /\ session_usable = TRUE
    /\ handed = {}
    /\ applied = <<>>
    /\ covered = NoRange
    /\ InitWallet

\* the registry deployed next to a contract on which both hashes registered
\* before the listener's cold-start window
Init ==
    /\ InitStore
    /\ chain = [h \in Hashes |-> FreshNode(h)]

\* the wallet's calls, next to an idle registry
SpecWallet == Init /\ [][NextWallet]_vars

\* ----------------------------------------------- the registry, one call at a time
\* the listener hands one event to its handler, on a fresh session
ApplyEvent(e) ==
    LET out == Handle(e, nodes, TRUE, Ledger)
    IN  /\ nodes' = out.db
        /\ resp' = Done(e.type, e, IF out.raised THEN "error" ELSE "ok")
        /\ Tick
        /\ UNCHANGED <<chain, rpc_up, conc, idn, lis>>

ApiRegister(req) ==
    LET out == register_node(req, nodes)
    IN  /\ nodes' = out.db
        /\ resp' = Done("register", req, out.status)
        /\ Tick
        /\ UNCHANGED <<chain, rpc_up, conc, idn, lis>>

ApiHeartbeat(h, req) ==
    LET out == heartbeat(h, req, nodes)
    IN  /\ nodes' = out.db
        /\ resp' = Done("heartbeat", h, out.status)
        /\ Tick
        /\ UNCHANGED <<chain, rpc_up, conc, idn, lis>>

ApiEndorse(h) ==
    LET out == endorse_node(h, nodes)
    IN  /\ nodes' = out.db
        /\ resp' = Done("endorse", h, out.status)
        /\ Tick
        /\ UNCHANGED <<chain, rpc_up, conc, idn, lis>>

ApiComplain(h) ==
    LET out == complain_node(h, nodes)
    IN  /\ nodes' = out.db
        /\ resp' = Done("complain", h, out.status)
        /\ Tick
        /\ UNCHANGED <<chain, rpc_up, conc, idn, lis>>

ApiRescore(h) ==
    LET out == rescore_node(h, nodes)
    IN  /\ nodes' = out.db
        /\ resp' = Done("rescore", h, out.status)
        /\ Tick
        /\ UNCHANGED <<chain, rpc_up, conc, idn, lis>>

\* the ledger: a stake or withdraw transaction changes the stake of a hash
LedgerStake(h, s) ==
    /\ chain[h].stake # s
    /\ chain' = [chain EXCEPT ![h].stake = s]
    /\ resp' = Done("ledger", h, "ok")
    /\ Tick
    /\ UNCHANGED <<nodes, rpc_up, conc, idn, lis>>

\* the RPC endpoint goes away or comes back
RpcFlip ==
    /\ rpc_up' = ~rpc_up
    /\ resp' = Done("rpc", NULL, "ok")
    /\ Tick
    /\ UNCHANGED <<nodes, chain, conc, idn, lis>>

\* a verifyNode or deregisterNode transaction on the ledger
LedgerVerify(h) ==
    /\ ~chain[h].verified
    /\ chain' = [chain EXCEPT ![h].verified = TRUE]
    /\ resp' = Done("ledger", h, "ok")
    /\ Tick
    /\ UNCHANGED <<nodes, rpc_up, conc, idn, lis>>

LedgerDeregister(h) ==
    /\ chain[h].active
    /\ chain' = [chain EXCEPT ![h].active = FALSE]
    /\ resp' = Done("ledger", h, "ok")
    /\ Tick
    /\ UNCHANGED <<nodes, rpc_up, conc, idn, lis>>

\* GET /dns/{dns_name}; the RPC may stop answering between the resolver's
\* two calls
ApiResolve(dns_name, still_up) ==
    LET out == resolve_dns(dns_name, nodes, Ledger,
                           [up |-> rpc_up /\ still_up, chain |-> chain])
    IN  /\ resp' = [op |-> "resolve", arg |-> dns_name, status |-> out.status,
                    again |-> (resp.op = "resolve" /\ resp.arg = dns_name),
                    body |-> out.body,
                    answered |-> (rpc_up /\ (still_up \/ out.body # NoRecord))]
        /\ Tick
        /\ UNCHANGED <<nodes, chain, rpc_up, conc, idn, lis>>

Next ==
    \/ \E e \in Events : ApplyEvent(e)
    \/ \E req \in RegisterRequests : ApiRegister(req)
    \/ \E h \in Hashes, req \in HeartbeatRequests : ApiHeartbeat(h, req)
    \/ \E h \in Hashes : ApiEndorse(h)
    \/ \E h \in Hashes : ApiComplain(h)
    \/ \E h \in Hashes : ApiRescore(h)
    \/ \E h \in Hashes, s \in StakeAmounts : LedgerStake(h, s)
    \/ RpcFlip

Spec == Init /\ [][Next]_vars

\* ------------------------------------------------- the endpoints that only read
\* self-registrations under the node_id "None"
NoneRequests ==
    [node_hash : Hashes, node_id : {"None"}, public_key : {NULL}, wallet : {NULL},
     dns_name : {NULL}, ip_address : {NULL}]

\* what a caller of GET /verify asks for: a name, a node_id, the empty
\* string, the text "None", and a string no row holds
Entities == {"a.1bz", "n1", "", "None", "zz"}

ApiGetNode(h) ==
    LET out == get_node(h, nodes)
    IN  /\ resp' = [op |-> "get_node", arg |-> h, status |-> out.status,
                    again |-> (resp.op = "get_node" /\ resp.arg = h),
                    body |-> out.body]
        /\ Tick
        /\ UNCHANGED <<nodes, chain, rpc_up, conc, idn, lis>>

ApiVerify(entity) ==
    /\ \E body \in verify_entity(entity, nodes) :
          resp' = [op |-> "verify", arg |-> entity, status |-> "ok",
                   again |-> (resp.op = "verify" /\ resp.arg = entity),
                   body |-> body]
    /\ Tick
    /\ UNCHANGED <<nodes, chain, rpc_up, conc, idn, lis>>

\* check_verification(config) of a node's client, with the registry
\* reachable or not
CheckVerification(config, registry_up) ==
    /\ \E data \in http_verify(config, nodes, registry_up) :
          resp' = [op |-> "check_verification", arg |-> config,
                   status |-> check_verification(config, data),
                   again |-> FALSE, body |-> data]
    /\ Tick
    /\ UNCHANGED <<nodes, chain, rpc_up, conc, idn, lis>>

NextApi ==
    \/ \E e \in Events : e.hash = "h1" /\ ApplyEvent(e)
    \/ \E req \in RegisterRequests \cup NoneRequests : ApiRegister(req)
    \/ \E h \in Hashes : ApiGetNode(h)
    \/ \E h \in Hashes, req \in HeartbeatRequests : ApiHeartbeat(h, req)
    \/ \E h \in Hashes : ApiEndorse(h)
    \/ \E h \in Hashes : ApiComplain(h)
    \/ \E h \in Hashes : ApiRescore(h)
    \/ \E entity \in Entities : ApiVerify(entity)
    \/ \E config \in Configs, registry_up \in BOOLEAN :
          CheckVerification(config, registry_up)

SpecApi == Init /\ [][NextApi]_vars

\* ------------------------------------- the API next to a ledger-fed listener
\* the event carries what the contract holds for its hash; a NodeRegistered
\* event the contract emitted carries the wallet and name it stored
EmittedByLedger(e) ==
    e.type = "NodeRegistered"
    => (e.wallet = chain[e.hash].wallet /\ e.dnsName = chain[e.hash].dnsName)

\* query parameters of GET /nodes: skip >= 0, 1 <= limit <= 200
ListQueries == [skip : {0, 1}, limit : {1, 2}, verified_only : BOOLEAN]

ApiListNodes(q) ==
    /\ \E body \in list_nodes(q.skip, q.limit, q.verified_only, nodes) :
          resp' = [op |-> "list_nodes", arg |-> q, status |-> "ok",
                   again |-> (resp.op = "list_nodes" /\ resp.arg = q),
                   body |-> body]
    /\ Tick
    /\ UNCHANGED <<nodes, chain, rpc_up, conc, idn, lis>>

\* the registry's calls, with the listener handing over only events the
\* contract emitted
NextIdentity ==
    \/ \E q \in ListQueries : ApiListNodes(q)
    \/ \E e \in Events : EmittedByLedger(e) /\ ApplyEvent(e)
    \/ \E req \in RegisterRequests : ApiRegister(req)
    \/ \E h \in Hashes, req \in HeartbeatRequests : ApiHeartbeat(h, req)
    \/ \E h \in Hashes : ApiEndorse(h)
    \/ \E h \in Hashes : ApiComplain(h)
    \/ \E h \in Hashes : ApiRescore(h)

SpecIdentity == Init /\ [][NextIdentity]_vars

\* ------------------------------------------------- heartbeats up to the cap
\* uptime_score, in hundredths, of a row that has had that many heartbeats
UptimeStarts == {0, 98, 99, 100}

\* the registry after the listener created the row of h1 and the node sent
\* some number of heartbeats without an ip_address
InitHeartbeat ==
    /\ \E u \in UptimeStarts :
          nodes = {[NodeRecord("h1", "", NULL, LedgerWallet("h1"), LedgerName("h1"),
                               NULL, IF u = 0 THEN NULL ELSE "t", "t")
                    EXCEPT !.uptime_score = u]}
    /\ rpc_up = TRUE
    /\ resp = [op |-> "init", arg |-> NULL, status |-> "ok", again |-> FALSE]
    /\ ops = 0
    /\ calls = [c \in 1..MaxCalls |-> IdleCall]
    /\ lpc = "boot"
    /\ from_block = NoBlock
    /\ last_block_file = NoBlock
    /\ resumed_from = NoBlock
    /\ head = GenesisHead
    /\ chain_log = <<>>
    /\ current_block = NoBlock
    /\ handler_idx = 1
    /\ events = <<>>
    /\ session_usable = TRUE
    /\ handed = {}
    /\ applied = <<>>
    /\ covered = NoRange
    /\ InitWallet
    /\ chain = [h \in Hashes |-> FreshNode(h)]

NextHeartbeat ==
    \/ \E h \in Hashes, req \in HeartbeatRequests : ApiHeartbeat(h, req)
    \/ \E req \in RegisterRequests : req.node_hash = "h2" /\ ApiRegister(req)
    \/ \E e \in Events : e.type \in {"NodeVerified", "StakeAdded"} /\ ApplyEvent(e)
    \/ \E h \in Hashes : ApiEndorse(h)
    \/ \E h \in Hashes : ApiRescore(h)

SpecHeartbeat == InitHeartbeat /\ [][NextHeartbeat]_vars

\* ------------------------------------------- endorse/complain, statement by statement
\* Every request runs on a session of its own (get_db).  Its SELECTs hold no
\* lock between statements, a commit writes the columns the session changed,
\* and a commit expires the session's rows, so the next query reads anew.

\* endorse_node/complain_node: node = db.query(...).first(), or 404
CallQuery(c, op, h) ==
    /\ calls[c].pc = "idle"
    /\ calls' = [calls EXCEPT ![c] =
                    IF Has(nodes, h)
                    THEN [pc |-> "loaded", op |-> op, hash |-> h,
                          node |-> Row(nodes, h), status |-> NULL]
                    ELSE [pc |-> "done", op |-> op, hash |-> h,
                          node |-> NULL, status |-> "not_found"]]
    /\ UNCHANGED <<idn, nodes, chain, rpc_up, resp, ops, lis>>

\* the value the session writes: the count it loaded, plus one
bumped(loaded) == loaded + 1

\* node.endorsement_count += 1 (or complaint_count); db.commit()
CallCommitCount(c) ==
    /\ calls[c].pc = "loaded"
    /\ LET cur == Row(nodes, calls[c].hash)
           new == IF calls[c].op = "endorse"
                  THEN [cur EXCEPT !.endorsement_count =
                                      bumped(calls[c].node.endorsement_count)]
                  ELSE [cur EXCEPT !.complaint_count =
                                      bumped(calls[c].node.complaint_count)]
       IN  nodes' = Put(nodes, new)
    /\ calls' = [calls EXCEPT ![c].pc = "counted", ![c].node = NULL]
    /\ UNCHANGED <<idn, chain, rpc_up, resp, ops, lis>>

\* update_node_trust: node = db_session.query(...).first()
CallReload(c) ==
    /\ calls[c].pc = "counted"
    /\ calls' = [calls EXCEPT ![c].pc = "reloaded",
                              ![c].node = Row(nodes, calls[c].hash)]
    /\ UNCHANGED <<idn, nodes, chain, rpc_up, resp, ops, lis>>

\* update_node_trust: compute, assign trust_score and trust_tier, commit;
\* a column whose value the assignment leaves as loaded is not written
CallCommitScore(c) ==
    /\ calls[c].pc = "reloaded"
    /\ LET cur == Row(nodes, calls[c].hash)
           seen == calls[c].node
           st == compute_trust_score(TrustInputs(seen))
           new == [cur EXCEPT
                     !.trust_score = IF st.score # seen.trust_score
                                     THEN st.score ELSE cur.trust_score,
                     !.trust_tier = IF st.tier # seen.trust_tier
                                    THEN st.tier ELSE cur.trust_tier]
       IN  nodes' = Put(nodes, new)
    /\ calls' = [calls EXCEPT ![c].pc = "done", ![c].node = NULL,
                              ![c].status = "ok"]
    /\ UNCHANGED <<idn, chain, rpc_up, resp, ops, lis>>

NextConc ==
    \/ \E req \in RegisterRequests :
          req.public_key = NULL /\ req.node_id # "" /\ ApiRegister(req)
    \/ \E c \in 1..MaxCalls, op \in {"endorse", "complain"}, h \in Hashes :
          CallQuery(c, op, h)
    \/ \E c \in 1..MaxCalls : CallCommitCount(c)
    \/ \E c \in 1..MaxCalls : CallReload(c)
    \/ \E c \in 1..MaxCalls : CallCommitScore(c)

SpecConc == Init /\ [][NextConc]_vars

\* ------------------------------------------- registration, statement by statement
\* The listener's handler runs in call 1 (one handler at a time), the
\* requests of POST /node/register in the other calls, each on its own
\* session.  A call keeps what it read in `seen` until it is over.
ApiCalls == 2..MaxCalls

\* register_node: existing = db.query(...).first()
RegisterQuery(c, req) ==
    /\ calls[c].pc = "idle"
    /\ calls' = [calls EXCEPT ![c] =
                    [pc |-> "queried", op |-> "register", hash |-> req.node_hash,
                     node |-> [arg |-> req,
                               seen |-> IF Has(nodes, req.node_hash)
                                        THEN Row(nodes, req.node_hash) ELSE NoRecord],
                     status |-> NULL]]
    /\ UNCHANGED <<idn, nodes, chain, rpc_up, resp, ops, lis>>

\* register_node after the query: the UPDATE of the columns it assigned, or
\* the INSERT of a new row; the commit checks the table's constraints against
\* the rows the table holds then
RegisterCommit(c) ==
    /\ calls[c].pc = "queried" /\ calls[c].op = "register"
    /\ LET req == calls[c].node.arg
           seen == calls[c].node.seen
           cur == Row(nodes, req.node_hash)
           upd == [cur EXCEPT
                     !.public_key = IF Truthy(req.public_key)
                                    THEN req.public_key ELSE cur.public_key,
                     !.ip_address = IF Truthy(req.ip_address)
                                    THEN req.ip_address ELSE cur.ip_address,
                     !.node_id = IF Truthy(req.node_id) THEN req.node_id ELSE cur.node_id,
                     !.last_seen = "t"]
           new == NodeRecord(req.node_hash, req.node_id, req.public_key,
                             req.wallet, req.dns_name, req.ip_address, "t", NULL)
           out == IF seen # NoRecord
                  THEN IF Conflicts(nodes \ {cur}, upd) THEN Reply(nodes, "error")
                       ELSE Reply(Put(nodes, upd), "updated")
                  ELSE IF Conflicts(nodes, new) THEN Reply(nodes, "error")
                       ELSE Reply(nodes \cup {new}, "registered")
       IN  /\ nodes' = out.db
           /\ calls' = [calls EXCEPT ![c].pc = "done", ![c].status = out.status]
    /\ UNCHANGED <<idn, chain, rpc_up, resp, ops, lis>>

\* process_node_registered: existing = db.query(...).first(); if existing,
\* log and return
RegisteredQuery(e) ==
    /\ calls[1].pc = "idle"
    /\ e.type = "NodeRegistered"
    /\ calls' = [calls EXCEPT ![1] =
                    IF Has(nodes, e.hash)
                    THEN [pc |-> "done", op |-> "NodeRegistered", hash |-> e.hash,
                          node |-> [arg |-> e, seen |-> Row(nodes, e.hash)],
                          status |-> "ok"]
                    ELSE [pc |-> "queried", op |-> "NodeRegistered", hash |-> e.hash,
                          node |-> [arg |-> e, seen |-> NoRecord], status |-> NULL]]
    /\ UNCHANGED <<idn, nodes, chain, rpc_up, resp, ops, lis>>

\* process_node_registered after the query: db.add(node); db.commit().  A
\* commit that raises is caught by the loop, which never rolls the shared
\* session back.
RegisteredCommit ==
    /\ calls[1].pc = "queried" /\ calls[1].op = "NodeRegistered"
    /\ LET e == calls[1].node.arg
           node == NodeRecord(e.hash, "", NULL, e.wallet, e.dnsName, NULL, NULL, "t")
           raised == Conflicts(nodes, node)
       IN  /\ nodes' = IF raised THEN nodes ELSE nodes \cup {node}
           /\ session_usable' = (session_usable /\ ~raised)
           /\ calls' = [calls EXCEPT ![1].pc = "done",
                                     ![1].status = IF raised THEN "error" ELSE "ok"]
    /\ UNCHANGED <<idn, chain, rpc_up, resp, ops, last_block_file, handed, applied, covered, head, chain_log,
                   lpc, from_block, resumed_from, current_block, handler_idx, events>>

NextReg ==
    \/ \E c \in ApiCalls, req \in RegisterRequests : RegisterQuery(c, req)
    \/ \E c \in ApiCalls : RegisterCommit(c)
    \/ \E e \in Events : RegisteredQuery(e)
    \/ RegisteredCommit

SpecReg == Init /\ [][NextReg]_vars

\* ------------------------------------------------ the scoring function by itself
\* TrustInputs the function is called with: stakes at and around the cap,
\* uptime and quality (hundredths) inside and outside [0, 1], counts, and a
\* total of interactions that need not match the counts
ScoreStakes ==
    {0, 999 * WEI_PER_MATIC, MAX_STAKE_MATIC * WEI_PER_MATIC,
     2 * MAX_STAKE_MATIC * WEI_PER_MATIC}
SignalValues == {0 - 50, 0, 50, 100, 150}
EndorsementValues == {0, 1, 10, 100}
ComplaintValues == {0, 1, 10}
InteractionValues == {0, 1, 10}
ScoreInputs ==
    [stake_matic : {from_wei(w) : w \in ScoreStakes},
     uptime_ratio : SignalValues,
     ai_quality_score : SignalValues,
     endorsement_count : EndorsementValues,
     complaint_count : ComplaintValues,
     total_interactions : InteractionValues,
     verified : BOOLEAN]

\* StakeAdded events that carry a total just under the cap
NearCapEvents ==
    {Event("StakeAdded", h, NULL, NULL, 999 * WEI_PER_MATIC) : h \in Hashes}

\* the registry as in Init, and a caller holding the TrustInputs it is about
\* to pass to compute_trust_score
InitScore ==
    /\ nodes = {}
    /\ rpc_up = TRUE
    /\ \E inputs \in ScoreInputs :
          resp = [op |-> "TrustInputs", arg |-> inputs, status |-> NULL,
                  again |-> FALSE]
    /\ ops = 0
    /\ calls = [c \in 1..MaxCalls |-> IdleCall]
    /\ lpc = "boot"
    /\ from_block = NoBlock
    /\ last_block_file = NoBlock
    /\ resumed_from = NoBlock
    /\ head = GenesisHead
    /\ chain_log = <<>>
    /\ current_block = NoBlock
    /\ handler_idx = 1
    /\ events = <<>>
    /\ session_usable = TRUE
    /\ handed = {}
    /\ applied = <<>>
    /\ covered = NoRange
    /\ InitWallet
    /\ chain = [h \in Hashes |-> FreshNode(h)]

\* score, tier = compute_trust_score(inputs)
ComputeScore ==
    /\ resp.op = "TrustInputs"
    /\ resp' = [op |-> "compute_trust_score", arg |-> resp.arg,
                status |-> compute_trust_score(resp.arg), again |-> FALSE]
    /\ UNCHANGED <<nodes, chain, rpc_up, ops, conc, idn, lis>>

\* the function called directly, and called by the handlers and endpoints
\* that store its result on a row
NextScore ==
    \/ ComputeScore
    \/ \E e \in Events \cup NearCapEvents : ApplyEvent(e)
    \/ \E req \in RegisterRequests : req.public_key = NULL /\ ApiRegister(req)
    \/ \E h \in Hashes, req \in HeartbeatRequests : ApiHeartbeat(h, req)
    \/ \E h \in Hashes : ApiEndorse(h)
    \/ \E h \in Hashes : ApiComplain(h)
    \/ \E h \in Hashes : ApiRescore(h)

SpecScore == InitScore /\ [][NextScore]_vars

\* ------------------------------------------- the scoring function, called repeatedly
\* Callers of compute_trust_score, numbered in the order they call, next to
\* a registry that keeps working.  A caller keeps the inputs it passed, the
\* number of registry operations done when it called, and the answer.
RepeatInputs ==
    {i \in ScoreInputs :
        /\ i.stake_matic.matic \in {0, 999} /\ i.uptime_ratio \in {0, 150}
        /\ i.stake_matic.matic = 0 <=> i.uptime_ratio = 150
        /\ i.ai_quality_score = 0 /\ i.endorsement_count = 1
        /\ i.complaint_count = 0 /\ i.total_interactions = 1 /\ i.verified}

\* a caller that has not called yet
IdleCaller ==
    [pc |-> "idle", op |-> NULL, hash |-> NULL,
     node |-> [inputs |-> NoRecord, at |-> 0], status |-> NoRecord]

\* the registry as in Init, and nobody has called the function
InitRepeat ==
    /\ nodes = {}
    /\ rpc_up = TRUE
    /\ resp = [op |-> "init", arg |-> NULL, status |-> "ok", again |-> FALSE]
    /\ ops = 0
    /\ calls = [c \in 1..MaxCalls |-> IdleCaller]
    /\ lpc = "boot"
    /\ from_block = NoBlock
    /\ last_block_file = NoBlock
    /\ resumed_from = NoBlock
    /\ head = GenesisHead
    /\ chain_log = <<>>
    /\ current_block = NoBlock
    /\ handler_idx = 1
    /\ events = <<>>
    /\ session_usable = TRUE
    /\ handed = {}
    /\ applied = <<>>
    /\ covered = NoRange
    /\ InitWallet
    /\ chain = [h \in Hashes |-> FreshNode(h)]

ScoreCall_counting(c, inputs) ==
    /\ calls[c].pc = "idle"
    /\ \A b \in 1..MaxCalls : b < c => calls[b].pc = "done"
    /\ calls' = [calls EXCEPT ![c] =
                    [pc |-> "done", op |-> "compute_trust_score", hash |-> NULL,
                     node |-> [inputs |-> inputs, at |-> ops],
                     status |-> [compute_trust_score(inputs) EXCEPT
                                    !.score = @ + ops]]]
    /\ UNCHANGED <<idn, nodes, chain, rpc_up, resp, ops, lis>>

ScoreCall(c, inputs) ==
    /\ calls[c].pc = "idle"
    /\ \A b \in 1..MaxCalls : b < c => calls[b].pc = "done"
    /\ calls' = [calls EXCEPT ![c] =
                    [pc |-> "done", op |-> "compute_trust_score", hash |-> NULL,
                     node |-> [inputs |-> inputs, at |-> ops],
                     status |-> compute_trust_score(inputs)]]
    /\ UNCHANGED <<idn, nodes, chain, rpc_up, resp, ops, lis>>

NextRepeat ==
    \/ \E c \in 1..MaxCalls, inputs \in RepeatInputs : ScoreCall(c, inputs)
    \/ \E e \in Events :
          /\ e.hash = "h1" /\ e.dnsName \in {NULL, LedgerName("h1")}
          /\ e.type \in {"NodeRegistered", "NodeVerified", "StakeAdded"}
          /\ ApplyEvent(e)
    \/ ApiRescore("h1")

SpecRepeat == InitRepeat /\ [][NextRepeat]_vars

\* ------------------------------------------------- the resolver next to the registry
NextDNS ==
    \/ \E e \in Events : ApplyEvent(e)
    \/ \E req \in RegisterRequests \cup GhostRequests : ApiRegister(req)
    \/ \E h \in Hashes : LedgerVerify(h)
    \/ \E h \in Hashes : LedgerDeregister(h)
    \/ RpcFlip
    \/ \E dns_name \in QueryNames, still_up \in BOOLEAN : ApiResolve(dns_name, still_up)

SpecDNS == Init /\ [][NextDNS]_vars

\* ------------------------------------------------------------ the listener
\* The ledger: the contract accepts a transaction and emits its event into
\* the block being built, head + 1.  The hashes are named in the order they
\* register: "h1" is the first.
LedgerAccepts(e) ==
    CASE e.type = "NodeRegistered" ->
            /\ chain[e.hash] = ZeroNode
            /\ e.hash = "h2" => chain["h1"] # ZeroNode
            /\ e.wallet = LedgerWallet(e.hash)
            /\ e.dnsName = LedgerName(e.hash)
      [] e.type = "NodeVerified" -> chain[e.hash].active /\ ~chain[e.hash].verified
      [] e.type = "StakeAdded" ->
            chain[e.hash].active /\ e.newTotal > chain[e.hash].stake
      [] e.type = "StakeWithdrawn" -> chain[e.hash].active /\ chain[e.hash].stake > 0
      [] e.type = "NodeDeregistered" -> chain[e.hash].active

Transact(e) ==
    CASE e.type = "NodeRegistered" -> [chain EXCEPT ![e.hash] = FreshNode(e.hash)]
      [] e.type = "NodeVerified" -> [chain EXCEPT ![e.hash].verified = TRUE]
      [] e.type = "StakeAdded" -> [chain EXCEPT ![e.hash].stake = e.newTotal]
      [] e.type = "StakeWithdrawn" -> [chain EXCEPT ![e.hash].stake = 0]
      [] e.type = "NodeDeregistered" -> [chain EXCEPT ![e.hash].active = FALSE]

\* a transaction the contract accepts, while its log holds fewer than n events
EmitUpTo(e, n) ==
    /\ Len(chain_log) < n
    /\ LedgerAccepts(e)
    /\ chain' = Transact(e)
    /\ chain_log' = Append(chain_log, [block |-> head + 1, event |-> e])
    /\ UNCHANGED <<nodes, rpc_up, resp, ops, conc, idn, proc, last_block_file,
                   handed, applied, covered, head>>

Emit(e) == EmitUpTo(e, MaxEvents)

Mine ==
    /\ head < GenesisHead + MaxBlocks
    /\ head' = head + 1
    /\ UNCHANGED <<nodes, chain, rpc_up, resp, ops, conc, idn, proc, last_block_file,
                   handed, applied, covered, chain_log>>

\* the RPC endpoint goes away or comes back while the listener runs
RpcChange ==
    /\ rpc_up' = ~rpc_up
    /\ UNCHANGED <<nodes, chain, resp, ops, conc, idn, lis>>

\* event_obj.get_logs(fromBlock=, toBlock=): the events of one type in the
\* range, both ends included, in ledger order
get_logs_exclusive(log, event_name, fromBlock, toBlock) ==
    LET InRange(x) == /\ x.event.type = event_name
                      /\ fromBlock <= x.block
                      /\ x.block < toBlock
    IN  SelectSeq(log, InRange)

get_logs(log, event_name, fromBlock, toBlock) ==
    LET InRange(x) == /\ x.event.type = event_name
                      /\ fromBlock <= x.block
                      /\ x.block <= toBlock
    IN  SelectSeq(log, InRange)

\* a line of the listener's log
Log(text, level) == [op |-> "log", arg |-> text, status |-> level, again |-> FALSE]

\* a step of the listener that logs nothing above level info
Quiet == Log(NULL, "none")

\* where from_block starts: the file's number, or the head less the rewind
start_block_cold(file, block_number) == block_number - COLD_START_REWIND
start_block(file, block_number) ==
    IF file # NoBlock THEN file ELSE block_number - COLD_START_REWIND

\* whether an exception of a handler leaves the `for event in events` loop;
\* `except Exception` around the handler catches it
handler_error_escapes_loop(raised) == raised
handler_error_escapes(raised) == FALSE

\* where the process is after an exception inside the `while True` body; the
\* outer `except Exception` logs it and the loop goes on
on_listener_error(pc) == "poll"

\* init_db(), w3.is_connected(), get_contract
Boot ==
    /\ lpc = "boot"
    /\ IF rpc_up
       THEN lpc' = "init" /\ resp' = Quiet
       ELSE lpc' = "exited" /\ resp' = Log("Cannot connect to RPC", "critical")
    /\ UNCHANGED <<nodes, chain, rpc_up, ops, conc, idn, from_block, resumed_from,
                   current_block, handler_idx, events, session_usable,
                   last_block_file, handed, applied, covered, head, chain_log>>

\* the lines between get_contract and `while True`; w3.eth.block_number is
\* read outside any try
ReadCheckpoint ==
    /\ lpc = "init"
    /\ IF last_block_file = NoBlock /\ ~rpc_up
       THEN /\ lpc' = "exited"
            /\ resp' = Log("Traceback", "critical")
            /\ UNCHANGED <<from_block, resumed_from>>
       ELSE /\ lpc' = "poll"
            /\ from_block' = start_block(last_block_file, head)
            /\ resumed_from' = last_block_file
            /\ resp' = Quiet
    /\ UNCHANGED <<nodes, chain, rpc_up, ops, conc, idn, current_block, handler_idx,
                   events, session_usable, last_block_file, handed, applied, covered, head, chain_log>>

\* top of the loop body, with block_number the answer of w3.eth.block_number:
\* the head query, then sleep or open a session
PollAt_without_sleep(block_number) ==
    /\ lpc = "poll"
    /\ IF ~rpc_up
       THEN /\ lpc' = on_listener_error(lpc)
            /\ resp' = Log("Listener error", "error")
            /\ UNCHANGED <<current_block, handler_idx, events, session_usable>>
       ELSE /\ current_block' = block_number - CONFIRMATIONS
            /\ lpc' = "fetch"
            /\ handler_idx' = 1
            /\ events' = <<>>
            /\ session_usable' = TRUE
            /\ resp' = Quiet
    /\ UNCHANGED <<nodes, chain, rpc_up, ops, conc, idn, from_block, resumed_from,
                   last_block_file, handed, head, chain_log>>
    /\ applied' = IF rpc_up THEN <<>> ELSE applied
    /\ covered' = covered

\* a poll that holds no block back from the head
PollAt_up_to_head(block_number) ==
    /\ lpc = "poll"
    /\ IF ~rpc_up
       THEN /\ lpc' = on_listener_error(lpc)
            /\ resp' = Log("Listener error", "error")
            /\ UNCHANGED <<current_block, handler_idx, events, session_usable>>
       ELSE /\ current_block' = block_number
            /\ IF block_number <= from_block
               THEN UNCHANGED <<lpc, handler_idx, events, session_usable>>
               ELSE /\ lpc' = "fetch"
                    /\ handler_idx' = 1
                    /\ events' = <<>>
                    /\ session_usable' = TRUE
            /\ resp' = Quiet
    /\ UNCHANGED <<nodes, chain, rpc_up, ops, conc, idn, from_block, resumed_from,
                   last_block_file, handed, head, chain_log>>
    /\ applied' = IF rpc_up /\ block_number > from_block THEN <<>> ELSE applied
    /\ covered' = covered

PollAt(block_number) ==
    /\ lpc = "poll"
    /\ IF ~rpc_up
       THEN /\ lpc' = on_listener_error(lpc)
            /\ resp' = Log("Listener error", "error")
            /\ UNCHANGED <<current_block, handler_idx, events, session_usable>>
       ELSE /\ current_block' = block_number - CONFIRMATIONS
            /\ IF block_number - CONFIRMATIONS <= from_block
               THEN UNCHANGED <<lpc, handler_idx, events, session_usable>>
               ELSE /\ lpc' = "fetch"
                    /\ handler_idx' = 1
                    /\ events' = <<>>
                    /\ session_usable' = TRUE
            /\ resp' = Quiet
    /\ UNCHANGED <<nodes, chain, rpc_up, ops, conc, idn, from_block, resumed_from,
                   last_block_file, handed, head, chain_log>>
    /\ applied' = IF rpc_up /\ block_number - CONFIRMATIONS > from_block THEN <<>> ELSE applied
    /\ covered' = covered

\* a poll answered by a node that has the ledger's head
Poll == PollAt(head)

\* the positions of EVENT_HANDLERS from idx on whose get_logs has events
types_with_events(log, idx, fromBlock, toBlock) ==
    {j \in idx..Len(EVENT_HANDLERS) :
        get_logs(log, EVENT_HANDLERS[j], fromBlock, toBlock) # <<>>}

\* the `for event_name, handler` loop from the type at handler_idx on, up to
\* the first get_logs that returns events: one step while the calls are
\* answered with empty lists, since nothing is written between them
Fetch ==
    /\ lpc = "fetch"
    /\ IF ~rpc_up
       THEN /\ lpc' = on_listener_error(lpc)
            /\ resp' = Log("Listener error", "error")
            /\ UNCHANGED <<handler_idx, events>>
       ELSE LET found == types_with_events(chain_log, handler_idx, from_block,
                                           current_block)
                j == CHOOSE x \in found : \A y \in found : x <= y
            IN  /\ IF found # {}
                   THEN /\ lpc' = "apply"
                        /\ handler_idx' = j
                        /\ events' = get_logs(chain_log, EVENT_HANDLERS[j],
                                              from_block, current_block)
                   ELSE /\ lpc' = "advance"
                        /\ handler_idx' = Len(EVENT_HANDLERS)
                        /\ events' = <<>>
                /\ resp' = Quiet
    /\ UNCHANGED <<nodes, chain, rpc_up, ops, conc, idn, from_block, resumed_from,
                   current_block, session_usable, last_block_file, handed, applied, covered, head,
                   chain_log>>

\* handler(event, db) for the next event of the fetched list
Apply ==
    /\ lpc = "apply"
    /\ LET out == Handle(Head(events).event, nodes, session_usable, Ledger)
           escaped == handler_error_escapes(out.raised)
           last == Tail(events) = <<>>
       IN  /\ nodes' = out.db
           /\ handed' = handed \cup {Head(events)}
           /\ applied' = Append(applied, Head(events))
           /\ covered' = covered
           /\ session_usable' = out.usable
           /\ resp' = IF out.raised THEN Log("Error processing event", "error")
                      ELSE Quiet
           /\ events' = IF escaped THEN <<>> ELSE Tail(events)
           /\ lpc' = IF escaped THEN on_listener_error(lpc)
                     ELSE IF ~last THEN "apply"
                     ELSE IF handler_idx < Len(EVENT_HANDLERS) THEN "fetch"
                     ELSE "advance"
           /\ handler_idx' = IF ~escaped /\ last /\ handler_idx < Len(EVENT_HANDLERS)
                             THEN handler_idx + 1 ELSE handler_idx
    /\ UNCHANGED <<chain, rpc_up, ops, conc, idn, from_block, resumed_from,
                   current_block, last_block_file, head, chain_log>>

\* the range [first, last] of a tick that ran to its end, after the ranges
\* before it: `exact` says whether every range so far started at the block
\* after the one before it ended and held at least one block
Cover(first, last) ==
    IF covered = NoRange
    THEN [hi |-> last, exact |-> first <= last]
    ELSE [hi |-> last,
          exact |-> covered.exact /\ first = covered.hi + 1 /\ first <= last]

\* a tick that starts the next range at the upper bound of this one
Advance_from_upper_bound ==
    /\ lpc = "advance"
    /\ from_block' = current_block
    /\ last_block_file' = current_block
    /\ covered' = Cover(from_block, current_block)
    /\ lpc' = "poll"
    /\ resp' = Quiet
    /\ UNCHANGED <<nodes, chain, rpc_up, ops, conc, idn, resumed_from,
                   current_block, handler_idx, events, session_usable, head,
                   chain_log, handed, applied>>

\* db.close(); from_block = current_block + 1; write_text(str(from_block))
Advance ==
    /\ lpc = "advance"
    /\ from_block' = current_block + 1
    /\ last_block_file' = current_block + 1
    /\ covered' = Cover(from_block, current_block)
    /\ lpc' = "poll"
    /\ resp' = Quiet
    /\ UNCHANGED <<nodes, chain, rpc_up, ops, conc, idn, resumed_from,
                   current_block, handler_idx, events, session_usable, head,
                   chain_log, handed, applied>>

\* the process is killed, or has exited, and is started again: the table and
\* the file stay, the locals go
Crash ==
    /\ lpc # "boot"
    /\ lpc' = "boot"
    /\ from_block' = NoBlock
    /\ resumed_from' = NoBlock
    /\ current_block' = NoBlock
    /\ handler_idx' = 1
    /\ events' = <<>>
    /\ session_usable' = TRUE
    /\ resp' = Quiet
    /\ applied' = <<>>
    /\ covered' = covered
    /\ UNCHANGED <<nodes, chain, rpc_up, ops, conc, idn, last_block_file, handed, head,
                   chain_log>>

\* a deployment with nothing registered on the contract yet
InitListener ==
    /\ InitStore
    /\ chain = [h \in Hashes |-> ZeroNode]

ListenerStep == Boot \/ ReadCheckpoint \/ Poll \/ Fetch \/ Apply \/ Advance

NextListener ==
    \/ Boot
    \/ ReadCheckpoint
    \/ Poll
    \/ Fetch
    \/ Apply
    \/ Advance
    \/ Crash
    \/ \E e \in Events : Emit(e)
    \/ Mine
    \/ RpcChange

SpecListener == InitListener /\ [][NextListener]_vars

\* ------------------------------------------- the listener behind a lagging endpoint
\* The RPC endpoint may answer from a node that is behind the one that
\* answered before: the head it reports regresses by up to MaxLag blocks.
MaxLag == 2

\* a poll answered by a node that is `lag` blocks behind the ledger's head
PollLagging(lag) == PollAt(head - lag)

\* the listener started behind such a node: the cold start takes its head
ReadCheckpointLagging(lag) ==
    /\ lpc = "init"
    /\ rpc_up
    /\ lpc' = "poll"
    /\ from_block' = start_block(last_block_file, head - lag)
    /\ resumed_from' = last_block_file
    /\ resp' = Quiet
    /\ UNCHANGED <<nodes, chain, rpc_up, ops, conc, idn, current_block, handler_idx,
                   events, session_usable, last_block_file, handed, applied, covered, head, chain_log>>

NextRegress ==
    \/ Boot
    \/ ReadCheckpoint
    \/ \E lag \in 1..MaxLag : ReadCheckpointLagging(lag)
    \/ Poll
    \/ \E lag \in 1..MaxLag : PollLagging(lag)
    \/ Fetch
    \/ Apply
    \/ Advance
    \/ Crash
    \/ \E e \in Events : e.type \in {"NodeRegistered", "NodeVerified"} /\ Emit(e)
    \/ Mine
    \/ RpcChange

SpecRegress == InitListener /\ [][NextRegress]_vars

\* ---------------------------------------- one range, in type order and in log order
\* events of one node, enough of them for a stake to be added, withdrawn
\* and added again
MaxRangeEvents == 5

\* the listener is outside a tick: not between its first get_logs and the
\* write of the checkpoint
Idle == lpc \in {"boot", "init", "poll"}

\* The ledger moves only while the listener is outside a tick, so every
\* getNode call of one tick sees the same contract state.
NextOrder ==
    \/ Boot
    \/ ReadCheckpoint
    \/ Poll
    \/ Fetch
    \/ Apply
    \/ Advance
    \/ \E e \in Events : e.hash = "h1" /\ Idle /\ EmitUpTo(e, MaxRangeEvents)
    \/ Idle /\ Mine

SpecOrder == InitListener /\ [][NextOrder]_vars

\* The listener as a process that is not killed and keeps running: a step it
\* can take, it takes.  The ledger and the RPC endpoint are under no such
\* obligation.
NextLive ==
    \/ Boot
    \/ ReadCheckpoint
    \/ Poll
    \/ Fetch
    \/ Apply
    \/ Advance
    \/ \E e \in Events : Len(chain_log) < MaxLiveEvents /\ Emit(e)
    \/ Mine
    \/ RpcChange

SpecLive == InitListener /\ [][NextLive]_vars /\ WF_vars(ListenerStep)

\* ----------------------------------------------------------------- claims
Scored(node) == compute_trust_score(TrustInputs(node))

Completed(op, h) ==
    {c \in 1..MaxCalls : calls[c].pc = "done" /\ calls[c].status = "ok"
                         /\ calls[c].op = op /\ calls[c].hash = h}
AllCallsOver == \A c \in 1..MaxCalls : calls[c].pc \in {"idle", "done"}

\* C1: once all concurrent endorse (complain) calls on a hash have completed,
\* the row's endorsement_count (complaint_count) has grown by the number of
\* completed calls.  Rows start at 0 and only these calls count.  (Fails: two
\* calls load the same count and both write it plus one.)
C1_NoLostUpdate ==
    AllCallsOver =>
        \A r \in nodes :
            /\ r.endorsement_count = Cardinality(Completed("endorse", r.node_hash))
            /\ r.complaint_count = Cardinality(Completed("complain", r.node_hash))


\* C2: in every reachable state every row's stored trust_score and trust_tier
\* are the scoring function's result on the row's current verified, stake,
\* uptime, AI quality, endorsement and complaint values.  (Fails: a heartbeat
\* raises uptime_score and stores no new score.)
C2_ScoreMatchesFields ==
    \A r \in nodes :
        /\ r.trust_score = Scored(r).score
        /\ r.trust_tier = Scored(r).tier

\* a range [from_block, current_block] is being fetched and applied
Fetching == lpc \in {"fetch", "apply", "advance"}
\* the listener is inside `while True`
InLoop == lpc \in {"poll", "fetch", "apply", "advance"}

C4_OthersAppliedAsAlone ==
    [][(lpc = "apply" /\ lpc' # "boot" /\ events' # events)
        => nodes' = Handle(Head(events).event, nodes, TRUE, Ledger).db]_vars

\* C5: no step of the listener that calls the ledger while it is unreachable
\* (connection check, cold-start head query, head query or get_logs of a
\* tick) ends the process or changes the checkpoint file.  (Fails: the
\* connection check exits and the cold-start head query raises uncaught.)
C5_UnreachableNeverTerminates ==
    [][(~rpc_up /\ lpc \in {"boot", "init", "poll", "fetch"})
        => (lpc' # "exited" /\ last_block_file' = last_block_file)]_vars

\* the persisted checkpoint has passed every block below the newest
\* confirmed one, head - CONFIRMATIONS
CaughtUp == last_block_file >= head - CONFIRMATIONS

C7_RegisteredCreatesRow ==
    [][(resp'.op = "NodeRegistered" /\ ~Has(nodes, resp'.arg.hash))
        => /\ Has(nodes', resp'.arg.hash)
           /\ Row(nodes', resp'.arg.hash).verified = FALSE
           /\ Row(nodes', resp'.arg.hash).trust_score = 0
           /\ Row(nodes', resp'.arg.hash).trust_tier = "UNVERIFIED"]_vars

\* C8: a NodeRegistered event whose hash already has a row, whoever created
\* it, leaves the whole table as it was.
C8_RegisteredExistingIsNoOp ==
    [][(resp'.op = "NodeRegistered" /\ Has(nodes, resp'.arg.hash))
        => nodes' = nodes]_vars

\* C8 witness: the event was handled for a hash whose row the API created
\* (no registered_at) and whose wallet is not the event's
C8_Witness ==
    /\ resp.op = "NodeRegistered"
    /\ resp.status = "ok"
    /\ Has(nodes, resp.arg.hash)
    /\ Row(nodes, resp.arg.hash).registered_at = NULL
    /\ Row(nodes, resp.arg.hash).wallet # resp.arg.wallet

Withdrawn(h) == Event("StakeWithdrawn", h, NULL, NULL, 0)
LedgerSeen(up) == [up |-> up, chain |-> chain]
WithdrawnOnce(h, up) == process_stake_withdrawn(Withdrawn(h), nodes, LedgerSeen(up)).db
WithdrawnTwice(h, up1, up2) ==
    process_stake_withdrawn(Withdrawn(h), WithdrawnOnce(h, up1), LedgerSeen(up2)).db

\* C9: from any table, with the ledger's stake unchanged, handling
\* StakeWithdrawn(h) twice leaves the table as handling it once, whether or
\* not each of the two stake queries is answered.  (Fails: the first query
\* unanswered and the second answered.)
C9_TwiceIsOnce ==
    \A h \in Hashes, up1 \in BOOLEAN, up2 \in BOOLEAN :
        WithdrawnTwice(h, up1, up2) = WithdrawnOnce(h, up1)


\* the name has a name-to-hash mapping on the ledger
Mapped(dns_name) == \E h \in Hashes : chain[h].dnsName = dns_name

\* C10: resolve of a name the ledger maps returns a record, never NotFound,
\* in every state of the table.  (Fails: the ledger call raises, the resolver
\* swallows the exception and answers NotFound.)
C10_MappedNeverNotFound ==
    (resp.op = "resolve" /\ Mapped(resp.arg)) => resp.body # NoRecord

\* C11: resolve of a name the ledger does not map returns NotFound, whatever
\* the table holds, also when a row carries that dns_name.
C11_UnmappedIsNotFound ==
    (resp.op = "resolve" /\ ~Mapped(resp.arg)) => resp.body = NoRecord

\* C11 witness: an unmapped name was resolved, with the ledger answering,
\* while a row of the table carries the name
C11_Witness ==
    /\ resp.op = "resolve"
    /\ ~Mapped(resp.arg)
    /\ rpc_up
    /\ \E r \in nodes : r.dns_name = resp.arg

\* the answer of the last resolve is the record built from the ledger alone:
\* a record for a hash that has no row
Degraded ==
    /\ resp.op = "resolve"
    /\ resp.body # NoRecord
    /\ ~Has(nodes, resp.body.node_hash)

\* C12: a degraded record carries the ledger's wallet and verified flag, no
\* public_key and no ip_address, trust_score 0 and trust_tier UNVERIFIED
\* whatever the ledger's verified flag.  (Fails: the fallback sets the tier
\* to VERIFIED when the ledger's flag is set.)
C12_DegradedIsZeroed ==
    Degraded =>
        /\ resp.body.wallet = chain[resp.body.node_hash].wallet
        /\ resp.body.verified = chain[resp.body.node_hash].verified
        /\ resp.body.public_key = NULL
        /\ resp.body.ip_address = NULL
        /\ resp.body.trust_score = 0
        /\ resp.body.trust_tier = "UNVERIFIED"

\* the calls whose counter increment is committed and whose recomputed score
\* is not yet
BetweenCommits == {c \in 1..MaxCalls : calls[c].pc \in {"counted", "reloaded"}}

\* C13: no stored row has the counter of an endorse or complain call already
\* incremented while its trust_score and trust_tier are still those of the old
\* counter: at every point of a call the row's stored score is the score of
\* its stored fields.  (Fails: the increment and the score are two commits.)
C13_CountAndScoreInOneCommit ==
    \A c \in BetweenCommits :
        /\ Row(nodes, calls[c].hash).trust_score = Scored(Row(nodes, calls[c].hash)).score
        /\ Row(nodes, calls[c].hash).trust_tier = Scored(Row(nodes, calls[c].hash)).tier

\* the input signals of a row's score that operations change
Signals(r) ==
    <<r.verified, r.stake_wei, r.uptime_score, r.endorsement_count,
      r.complaint_count>>

\* C14: every operation (event handler or API call) that changes an input
\* signal of a row leaves the row with the trust_score and trust_tier of its
\* new fields.  (Fails: heartbeat raises uptime_score and does not recompute.)
C14_SignalChangeRecomputes ==
    [][\A h \in Hashes :
          (/\ Has(nodes, h)
           /\ Has(nodes', h)
           /\ Signals(Row(nodes, h)) # Signals(Row(nodes', h)))
          => /\ Row(nodes', h).trust_score = Scored(Row(nodes', h)).score
             /\ Row(nodes', h).trust_tier = Scored(Row(nodes', h)).tier]_vars

\* C15: the counters of every row are non-negative and no step makes one of
\* them smaller, also when endorse and complain calls on one hash interleave.
\* (Fails: a call that loaded the count before two others committed writes
\* its own loaded count plus one over theirs.)
C15_CountersNeverDecrease ==
    [][\A r \in nodes :
          /\ r.endorsement_count >= 0
          /\ r.complaint_count >= 0
          /\ Has(nodes', r.node_hash)
          /\ Row(nodes', r.node_hash).endorsement_count >= r.endorsement_count
          /\ Row(nodes', r.node_hash).complaint_count >= r.complaint_count]_vars

\* the rows that hold a name, and whether a new row with the given name and
\* node_id collides with an existing row on anything but a name held by
\* inactive rows only
Holders(dns_name) == {r \in nodes : r.dns_name = dns_name}
HeldByInactiveOnly(dns_name) ==
    Holders(dns_name) # {} /\ \A r \in Holders(dns_name) : ~r.active
ActiveNamesUnique(db) ==
    \A r1 \in db, r2 \in db :
        (r1.active /\ r2.active /\ r1.dns_name # NULL
         /\ r1.dns_name = r2.dns_name) => r1 = r2

\* C16: no two active rows share a dns_name, and a row created by a
\* NodeRegistered event or a self-registration under a name that only
\* inactive rows hold is accepted.  (Fails: column dns_name is unique over
\* all rows, so the insert is refused.)
C16_NameFreeOnceInactive ==
    [][/\ ActiveNamesUnique(nodes')
       /\ (/\ resp'.op = "register"
           /\ ~Has(nodes, resp'.arg.node_hash)
           /\ HeldByInactiveOnly(resp'.arg.dns_name)
           /\ \A r \in nodes : r.node_id # resp'.arg.node_id)
          => Has(nodes', resp'.arg.node_hash)
       /\ (/\ resp'.op = "NodeRegistered"
           /\ ~Has(nodes, resp'.arg.hash)
           /\ HeldByInactiveOnly(resp'.arg.dnsName)
           /\ \A r \in nodes : r.node_id # "")
          => Has(nodes', resp'.arg.hash)]_vars

BothSawAbsent(c1, c2) ==
    /\ c1 # c2
    /\ calls[c1].pc = "done" /\ calls[c2].pc = "done"
    /\ calls[c1].hash = calls[c2].hash
    /\ calls[c1].node.seen = NoRecord /\ calls[c2].node.seen = NoRecord

\* C18: the table never holds two rows of one node_hash, also when the
\* NodeRegistered handler and a self-registration, or two self-registrations,
\* of one hash run at the same time and both find the hash absent.
C18_OneRowPerHash ==
    \A h \in Hashes : Cardinality({r \in nodes : r.node_hash = h}) <= 1
\* the handler and a request for one hash both found it absent and both are
\* over, and so are two requests; the hash has a row
C18_Witness ==
    \E c1 \in ApiCalls, c2 \in ApiCalls :
        /\ BothSawAbsent(1, c1) /\ BothSawAbsent(c1, c2)
        /\ Has(nodes, calls[c1].hash)

\* scores are kept in hundredths: 0.00 to 100.00
InRange(score) == score >= 0 /\ score <= 100 * 100

\* C19: the score compute_trust_score returns is within [0, 100] whatever
\* the inputs, uptime and quality outside [0, 1] included, and so is the
\* trust_score of every row.
C19_ScoreWithinRange ==
    /\ resp.op = "compute_trust_score" => InRange(resp.status.score)
    /\ \A r \in nodes : InRange(r.trust_score)
\* the function has answered a call whose uptime is above 1, whose quality
\* is below 0 and whose complaints outnumber its interactions
C19_Witness ==
    /\ resp.op = "compute_trust_score"
    /\ resp.arg.uptime_ratio > 100
    /\ resp.arg.ai_quality_score < 0
    /\ resp.arg.complaint_count > resp.arg.total_interactions
    /\ resp.arg.total_interactions > 0
    /\ resp.status.score > 0

\* the ordered rule of the tiers, applied to a score in hundredths
TierOf(score, verified) ==
    IF score >= 90 * 100 THEN "ENTERPRISE"
    ELSE IF score >= 70 * 100 THEN "TRUSTED"
    ELSE IF score >= 40 * 100 /\ verified THEN "VERIFIED"
    ELSE "UNVERIFIED"

\* C20: the tier returned with a score, and the tier stored with a score on
\* a row, is the ordered rule applied to that score and the verified flag.
\* (Fails: the tier is taken from the score before round(score, 2), so a
\* score of 39.996 is returned as 40.0 with the tier of a score below 40.)
C20_TierFollowsReturnedScore ==
    /\ resp.op = "compute_trust_score"
       => resp.status.tier = TierOf(resp.status.score, resp.arg.verified)
    /\ \A r \in nodes : r.trust_tier = TierOf(r.trust_score, r.verified)

\* a row none of whose scoring inputs was ever touched
ZeroSignals(r) ==
    /\ r.stake_wei = 0 /\ r.uptime_score = 0 /\ r.ai_quality_score = 0
    /\ r.endorsement_count = 0 /\ r.complaint_count = 0

Answered == {c \in 1..MaxCalls : calls[c].pc = "done"}

C23_CheckpointNeverDecreases ==
    [][/\ last_block_file' >= last_block_file
       /\ last_block_file' # NoBlock => last_block_file' >= 0]_vars
\* the process was restarted from a checkpoint, has written a higher one
\* with a handler having failed on the tick's session, and has then polled a
\* node whose head is behind that checkpoint
C23_Witness ==
    /\ lpc = "poll"
    /\ resumed_from # NoBlock
    /\ last_block_file > resumed_from
    /\ ~session_usable
    /\ current_block # NoBlock
    /\ current_block < from_block - 1

\* the events of the ledger's log in blocks below b
LoggedBelow(b) == {chain_log[i] : i \in {j \in 1..Len(chain_log) : chain_log[j].block < b}}

LoggedIn(a, b) ==
    {chain_log[i] : i \in {j \in 1..Len(chain_log) :
                              a <= chain_log[j].block /\ chain_log[j].block <= b}}

\* C25: a tick whose get_logs calls are all answered goes on to write the
\* checkpoint whether or not handlers raised (a handler that raises does
\* not end the tick, and the tick's last step writes the file), and the
\* file is written only after every event of the tick's range has been
\* handed to its handler.
C25_TickEndsInCheckpoint ==
    [][/\ (lpc = "apply" /\ lpc' # "boot") => lpc' \in {"apply", "fetch", "advance"}
       /\ (lpc = "fetch" /\ rpc_up /\ lpc' # "boot")
          => lpc' \in {"fetch", "apply", "advance"}
       /\ (lpc = "advance" /\ lpc' \notin {"boot", "advance"})
          => (lpc' = "poll" /\ last_block_file' = current_block + 1)
       /\ last_block_file' # last_block_file
          => LoggedIn(from_block, current_block) \subseteq handed]_vars
\* the file was just written at the end of a tick in which a handler raised:
\* the tick's range held two NodeRegistered events and only one has a row
C25_Witness ==
    /\ lpc = "poll"
    /\ last_block_file # NoBlock /\ last_block_file = from_block
    /\ last_block_file = current_block + 1
    /\ ~session_usable
    /\ Cardinality(nodes) = 1
    /\ Cardinality({x \in handed : x.event.type = "NodeRegistered"}) = 2

\* C26: a NodeVerified, StakeAdded, StakeWithdrawn or NodeDeregistered event
\* whose hash has no row leaves the table as it is and raises nothing into
\* the polling loop.  (Fails: on a session that a failed commit earlier in
\* the tick left unusable, the handler's query raises.)
C26_MissingRowIsSkipped ==
    [][(/\ lpc = "apply" /\ lpc' # "boot" /\ events' # events
        /\ Head(events).event.type # "NodeRegistered"
        /\ ~Has(nodes, Head(events).event.hash))
       => (nodes' = nodes /\ resp'.status # "error")]_vars

\* the value a merge gives a column: the request's if it supplies one
Merged(supplied, previous) == IF Truthy(supplied) THEN supplied ELSE previous

\* C27: POST /node/register for a hash that has a row merges the request
\* into it (node_id, public_key, wallet, dns_name and ip_address take the
\* value the request supplies and keep their value where it supplies none),
\* and for a hash without a row creates the row from the request.  (Fails:
\* the update branch never assigns wallet or dns_name.)
C27_RegisterMerges ==
    [][resp'.op = "register" =>
        LET req == resp'.arg
            h == req.node_hash
        IN  IF Has(nodes, h)
            THEN /\ Row(nodes', h).node_id = Merged(req.node_id, Row(nodes, h).node_id)
                 /\ Row(nodes', h).public_key
                      = Merged(req.public_key, Row(nodes, h).public_key)
                 /\ Row(nodes', h).wallet = Merged(req.wallet, Row(nodes, h).wallet)
                 /\ Row(nodes', h).dns_name = Merged(req.dns_name, Row(nodes, h).dns_name)
                 /\ Row(nodes', h).ip_address
                      = Merged(req.ip_address, Row(nodes, h).ip_address)
            ELSE /\ Has(nodes', h)
                 /\ Row(nodes', h).node_id = req.node_id
                 /\ Row(nodes', h).public_key = req.public_key
                 /\ Row(nodes', h).wallet = req.wallet
                 /\ Row(nodes', h).dns_name = req.dns_name
                 /\ Row(nodes', h).ip_address = req.ip_address]_vars

\* the endpoints that look a row up by the hash in their path
ByHash == {"get_node", "heartbeat", "endorse", "complain", "rescore"}

\* C28: GET /node/{hash}, heartbeat, endorse, complain and admin rescore for
\* a hash that has no row answer not found and leave the table as it was.
C28_MissingHashIsNotFound ==
    [][(resp'.op \in ByHash /\ ~Has(nodes, resp'.arg))
       => (resp'.status = "not_found" /\ nodes' = nodes)]_vars
\* a heartbeat for a hash without a row was answered not found while the
\* table holds the row of another hash
C28_Witness ==
    /\ resp.op = "heartbeat"
    /\ resp.status = "not_found"
    /\ ~Has(nodes, resp.arg)
    /\ nodes # {}

\* the rows GET /verify?entity=e can answer from
Matching(e) == {r \in nodes : r.dns_name = e \/ r.node_id = e}

\* C29: GET /verify?entity=e always answers: with the stored trust_tier and
\* trust_score of a row whose dns_name or node_id is e when there is one,
\* with status UNVERIFIED otherwise; and it leaves the table as it was.
C29_VerifyAnswersFromStoredRow ==
    [][resp'.op = "verify"
       => /\ nodes' = nodes
          /\ resp'.status = "ok"
          /\ IF Matching(resp'.arg) = {}
             THEN resp'.body = [status |-> "UNVERIFIED"]
             ELSE \E r \in Matching(resp'.arg) :
                     resp'.body = [status |-> r.trust_tier,
                                   trust_score |-> r.trust_score]]_vars
\* the lookup by node_id found a row without a name whose stored score is
\* positive, and answered with that row's tier and score
C29_Witness ==
    /\ resp.op = "verify"
    /\ \E r \in nodes : /\ r.node_id = resp.arg
                        /\ r.dns_name # resp.arg
                        /\ r.trust_score > 0
                        /\ resp.body = [status |-> r.trust_tier,
                                        trust_score |-> r.trust_score]

\* C30: check_verification answers UNVERIFIED when the mode is local or
\* missing, when the request to the registry fails, and when the mode is
\* registry but the config has no entity_slug; only in registry mode with an
\* entity_slug and an answered request is the result the registry's status.
C30_UnverifiedUnlessAsked ==
    resp.op = "check_verification"
    => IF /\ resp.arg.mode = "registry"
          /\ resp.arg.entity_slug # NULL
          /\ resp.body # Failed
       THEN resp.status = resp.body.status
       ELSE resp.status = "UNVERIFIED"

\* the calls that returned an address
Returned == {p \in WalletCallers : gen[p].pc = "returned"}

\* C31: once a generate_wallet call has returned, a further call raises
\* FileExistsError and leaves both wallet files as they were; and where every
\* other call was such a further call, load_wallet_address answers the
\* address the first call returned.
C31_GenerateOnce ==
    /\ [][\A p \in WalletCallers :
            (Returned # {} /\ gen[p].pc = "idle" /\ gen'[p].pc # "idle")
            => /\ gen'[p].pc = "raised"
               /\ gen'[p].error = "FileExistsError"
               /\ WALLET_ADDRESS_FILE' = WALLET_ADDRESS_FILE
               /\ WALLET_KEY_ENC_FILE' = WALLET_KEY_ENC_FILE]_vars
    /\ [][\A p \in Returned :
            ((\A q \in WalletCallers \ {p} :
                 gen[q].pc = "idle" \/ gen[q].error = "FileExistsError")
             /\ wallet_loaded' # wallet_loaded)
            => (~wallet_loaded'.raised /\ wallet_loaded'.value = gen[p].address)]_vars
\* one call returned, a second one was refused, and the address was then
\* loaded
C31_Witness ==
    /\ \E p \in Returned : \E q \in WalletCallers :
          /\ gen[q].error = "FileExistsError"
          /\ wallet_loaded.value = gen[p].address
    /\ wallet_loaded.flip

\* C32: right after a StakeWithdrawn event was handled for a row that exists,
\* the row's stake equals the ledger's stake of that hash and its score and
\* tier are the ones computed from it; right after a StakeAdded event the
\* row's stake equals the event's newTotal.
C32_StakeFollowsLedger ==
    /\ (resp.op = "StakeWithdrawn" /\ Has(nodes, resp.arg.hash))
       => LET node == Row(nodes, resp.arg.hash)
              st == compute_trust_score(TrustInputs(node))
          IN  /\ node.stake_wei = chain[resp.arg.hash].stake
              /\ node.trust_score = st.score
              /\ node.trust_tier = st.tier
    /\ (resp.op = "StakeAdded" /\ Has(nodes, resp.arg.hash))
       => Row(nodes, resp.arg.hash).stake_wei = resp.arg.newTotal

\* the place of an event type in the order Registered, Verified, StakeAdded,
\* StakeWithdrawn, Deregistered
TypeRank(type) ==
    CASE type = "NodeRegistered" -> 1
      [] type = "NodeVerified" -> 2
      [] type = "StakeAdded" -> 3
      [] type = "StakeWithdrawn" -> 4
      [] type = "NodeDeregistered" -> 5

\* C33: within one polled range the listener hands the events to their
\* handlers one at a time, by type in the order Registered, Verified,
\* StakeAdded, StakeWithdrawn, Deregistered: a step hands over at most one
\* event, and when an event of some type is handed over, every event of the
\* range of an earlier type has been handed over before it in this tick and
\* none of a later type has.
C33_AppliedInTypeOrder ==
    [][applied' # applied
       => \/ applied' = <<>>
          \/ /\ Len(applied') = Len(applied) + 1
             /\ SubSeq(applied', 1, Len(applied)) = applied
             /\ LET x == applied'[Len(applied')]
                IN  /\ x \in LoggedIn(from_block, current_block)
                    /\ \A i \in 1..Len(applied) :
                          TypeRank(applied[i].event.type) <= TypeRank(x.event.type)
                    /\ \A y \in LoggedIn(from_block, current_block) :
                          TypeRank(y.event.type) < TypeRank(x.event.type)
                          => \E i \in 1..Len(applied) : applied[i] = y]_vars
\* in one tick an event of a later type was handed over after an event of an
\* earlier type that the ledger logged after it
C33_Witness ==
    \E i, j \in 1..Len(applied) : \E a, b \in 1..Len(chain_log) :
        /\ i < j
        /\ TypeRank(applied[i].event.type) < TypeRank(applied[j].event.type)
        /\ chain_log[a] = applied[i]
        /\ chain_log[b] = applied[j]
        /\ a > b

\* C34: the listener holds two blocks back from the head it read: the range
\* of a tick ends at or below head - 2 and no event of a block above head - 2
\* is handed to a handler; and from a poll at which head - 2 does not exceed
\* the listener's starting block nothing is fetched: the table, the
\* checkpoint file and the events handed over stay as they are.
C34_HoldsBackConfirmations ==
    /\ CONFIRMATIONS = 2
    /\ [][/\ (Fetching' => current_block' <= head' - 2)
          /\ \A x \in handed' \ handed : x.block <= head - 2
          /\ (lpc = "poll" /\ head - 2 <= from_block)
             => /\ lpc' \in {"poll", "boot"}
                /\ nodes' = nodes
                /\ last_block_file' = last_block_file
                /\ handed' = handed]_vars
\* the listener polled and went back to sleep with the checkpoint written,
\* while the ledger's log holds an event in a block not yet confirmed that
\* no handler has seen
C34_Witness ==
    /\ lpc = "poll"
    /\ last_block_file # NoBlock
    /\ current_block = head - 2
    /\ current_block <= from_block
    /\ handed # {}
    /\ \E i \in 1..Len(chain_log) :
          chain_log[i].block > head - 2 /\ chain_log[i] \notin handed

\* what a heartbeat may change of a row
WithoutHeartbeatFields(node) ==
    [node EXCEPT !.uptime_score = 0, !.last_seen = NULL, !.ip_address = NULL]

\* C35: every row's uptime_score is within [0, 1.0] (0..100 hundredths); a
\* heartbeat on a row raises its uptime_score by the step when it is below
\* 1.0, capped at 1.0, and leaves it at 1.0 otherwise, so it never lowers it;
\* it sets last_seen, sets ip_address to the supplied one or leaves it, and
\* changes no other field of the row and no other row.
C35_HeartbeatNudgesUptime ==
    /\ [](\A r \in nodes : r.uptime_score \in 0..100)
    /\ [][(resp'.op = "heartbeat" /\ Has(nodes, resp'.arg))
          => LET old == Row(nodes, resp'.arg)
                 new == Row(nodes', resp'.arg)
             IN  /\ resp'.status = "ok"
                 /\ new.uptime_score >= old.uptime_score
                 /\ new.uptime_score =
                       IF old.uptime_score + UPTIME_STEP < 100
                       THEN old.uptime_score + UPTIME_STEP ELSE 100
                 /\ new.last_seen = "t"
                 /\ new.ip_address \in
                       {old.ip_address} \cup {req.ip_address : req \in HeartbeatRequests}
                 /\ new.ip_address # NULL \/ old.ip_address = NULL
                 /\ WithoutHeartbeatFields(new) = WithoutHeartbeatFields(old)
                 /\ nodes' \ {new} = nodes \ {old}]_vars
\* a heartbeat with an ip_address arrived for a row already at 1.0 that had
\* been endorsed: the score stayed at 1.0 and the address was stored
C35_Witness ==
    /\ resp.op = "heartbeat"
    /\ resp.status = "ok"
    /\ resp.again
    /\ Row(nodes, resp.arg).uptime_score = 100
    /\ Row(nodes, resp.arg).ip_address = "ip2"
    /\ Row(nodes, resp.arg).endorsement_count > 0

\* C36: the block ranges of the ticks that ran to their end follow each other
\* without gap and without overlap: each starts at the block after the last
\* block of the one before and holds at least one block, every event type
\* has been fetched over it when the tick ends, and the range does not move
\* while the tick is under way.
C36_RangesContiguous ==
    /\ [](covered.exact)
    /\ [](lpc = "advance" => handler_idx = Len(EVENT_HANDLERS))
    /\ [][(Fetching /\ Fetching')
          => (from_block' = from_block /\ current_block' = current_block)]_vars
\* a second tick, in a process that was not restarted, has applied events
\* and is about to end; its range starts right after the first tick's
C36_Witness ==
    /\ lpc = "advance"
    /\ resumed_from = NoBlock
    /\ covered # NoRange
    /\ from_block = covered.hi + 1
    /\ current_block > from_block
    /\ applied # <<>>

\* the events of the range [a, b] in the order of the ledger's log
RangeLog(a, b) ==
    LET Within(x) == a <= x.block /\ x.block <= b
    IN  SelectSeq(chain_log, Within)

\* the handlers called on the events of `log` in the order given, on one
\* session, against the ledger as it is
RECURSIVE ApplyInOrder(_, _, _)
ApplyInOrder(log, db, usable) ==
    IF log = <<>> THEN db
    ELSE LET out == Handle(Head(log).event, db, usable, Ledger)
         IN  ApplyInOrder(Tail(log), out.db, out.usable)

\* C37: when the first tick of a listener on an empty table ends, with the
\* ledger unchanged during the tick, the table is the one that the handlers
\* leave when called on the range's events in the ledger's order.  (Fails:
\* StakeWithdrawn is handled after every StakeAdded of the range, so a stake
\* added again after a withdrawal is overwritten by the ledger's current stake.)
C37_TypeOrderAsBlockOrder ==
    [][(lpc = "advance" /\ covered = NoRange /\ lpc' = "poll")
       => nodes = ApplyInOrder(RangeLog(from_block, current_block), {}, TRUE)]_vars

\* the hash has just had its NodeRegistered event handled: the handler
\* created the row, or found one in place
LedgerRegistered(h) ==
    /\ resp.op = "NodeRegistered"
    /\ resp.status = "ok"
    /\ resp.arg.hash = h

\* C38: right after the ledger's NodeRegistered event of a hash was handled
\* without error, the row of the hash carries the ledger's wallet and
\* dnsName, whether the API registered the hash before the event or not.
\* (Fails: the handler leaves a row it finds as it is, so a row the API
\* created first keeps the API's wallet and name.)
C38_RowCarriesLedgerIdentity ==
    \A h \in Hashes :
        LedgerRegistered(h)
        => /\ Has(nodes, h)
           /\ Row(nodes, h).wallet = chain[h].wallet
           /\ Row(nodes, h).dns_name = chain[h].dnsName

\* the hashes whose row is marked inactive
Inactive(db) == {r.node_hash : r \in {x \in db : ~x.active}}

\* C39: a row that is inactive stays in the table and stays inactive through
\* every ledger event and every API call, and the listing of active nodes
\* never returns the row of an inactive hash.
C39_InactiveStaysInactive ==
    /\ [][Inactive(nodes) \subseteq Inactive(nodes')]_vars
    /\ [](resp.op = "list_nodes"
          => \A d \in resp.body : d.active /\ d.node_hash \notin Inactive(nodes))
\* with the row of a deregistered hash in the table, the listing returned
\* the row of another hash and not this one
C39_Witness ==
    /\ resp.op = "list_nodes"
    /\ resp.body # {}
    /\ Inactive(nodes) # {}
    /\ \A d \in resp.body : d.node_hash \notin Inactive(nodes)

====
